---- MODULE Spec2Model ----
(***************************************************************************)
(* The SPIMEX crawl pipeline: main() reads the high-water mark, runs the   *)
(* SpimexParser (one link producer, NUM_CONSUMERS link consumers, joined   *)
(* by gather) and then hands the records queue to Database.               *)
(* put_data_into_bd.                                                       *)
(*                                                                         *)
(* Calendar dates are day numbers 0..MaxDay.  An optional value (Python    *)
(* None or a value) is the empty or the one-element sequence.  A listing   *)
(* page is the sequence of its anchors of class LINK_CLASS in document     *)
(* order.  Every coroutine advances one statement group at a time, so the  *)
(* interleavings include those of the cooperative asyncio scheduler.       *)
(***************************************************************************)
EXTENDS Integers, Sequences, FiniteSets, TLC

NUM_CONSUMERS == 3

MaxDay == 2

(* The static cutoff main() passes to the parser, as a day number.          *)
DEFAULT_CUTOFF_DATE == 1

MaxAnchors == 2

Dates == 0..MaxDay

(* run that starts one consumer more than NUM_CONSUMERS *)
WorkersOneMore == 1..(NUM_CONSUMERS + 1)

(* run: one consume_links task for each of range(NUM_CONSUMERS) *)
Workers == 1..NUM_CONSUMERS

NoValue == << >>

Some(v) == << v >>

OptionalDates == {NoValue} \cup {Some(d) : d \in Dates}

(* An anchor of the listing whose href matches LINK_PATTERN: its token is   *)
(* a calendar date ("date") or it is not ("malformed": strptime raises      *)
(* ValueError).                                                             *)
Anchors ==
    [tok : {"date"}, date : Dates] \cup [tok : {"malformed"}, date : {0}]

SeqsUpTo(S, n) == UNION {[1..k -> S] : k \in 0..n}

Pages == SeqsUpTo(Anchors, MaxAnchors)

(* What one GET of a report file can give: a response with its status (the  *)
(* body is a workbook or an HTML page), or an exception out of session.get  *)
(* before there is a response (status 0, body names the exception).         *)
Responses ==
    [status : {200}, body : {"xls", "html"}]
        \cup [status : {401, 403, 404, 500}, body : {""}]
        \cup [status : {0}, body : {"ClientConnectionError", "TimeoutError", "ValueError"}]

(* A URL or an href is the sequence of its pieces, in the order written:    *)
(* scheme with its colon, authority with its slashes, the path as           *)
(* separators and names, then "?" and "#" with what follows them.           *)
Schemes == {"https:", "http:"}

Netlocs == {"//spimex.com", "//cdn.example"}

BASE_URL ==
    << "https:", "//spimex.com", "/", "markets", "/", "oil_products", "/",
       "trades", "/", "results", "/" >>

(* What LINK_PATTERN matches, at the root and below a directory.            *)
ReportPath ==
    << "/", "upload", "/", "reports", "/", "oil_xls", "/",
       "oil_xls_20250105162000.xls" >>

HrefPrefixes ==
    {<< >>, << "archive" >>}
        \cup {<< n >> : n \in Netlocs}
        \cup {<< sch, n >> : sch \in Schemes, n \in Netlocs}

HrefQueries ==
    {<< >>, << "?", "version=1&tracking=abc" >>, << "?", "next=", "?", "page=2" >>}

HrefFragments == {<< >>, << "#", "top" >>, << "#", "sheet", "?", "2" >>}

Hrefs ==
    {a \o ReportPath \o q \o f :
        a \in HrefPrefixes, q \in HrefQueries, f \in HrefFragments}

NoHref == << >>

NoResponse == [status |-> 0, body |-> ""]

VARIABLES
    today,              \* datetime.now() at midnight
    cutoff_date,        \* SpimexParser.cutoff_date
    max_date,           \* SpimexParser.max_date (optional)
    max_date_type,      \* the Python type of max_date: "none", "datetime", "date"
    pcMain,             \* where main() is
    session,            \* SpimexParser.session: "none", "open", "closed"
    queue,              \* SpimexParser.queue: ids of the entries waiting
    producer_done,      \* SpimexParser.producer_done (Event)
    queue_data_for_db,  \* the records queue main() hands to the sink
    producer_db,        \* the active-producer counter the sink reads
    pcProd,             \* where produce_links is
    page_number,        \* produce_links: page_number
    html,               \* produce_links: the page being processed (optional)
    links,              \* produce_links: links of the page last parsed
    found_invalid_date, \* produce_links: flag of the page last parsed
    pc,                 \* where each consume_links is
    link,               \* consume_links: the entry being processed (optional id)
    pcSink,             \* where put_data_into_bd is
    enqueued,           \* history: date of every entry put, by id
    dequeues,           \* history: how often each entry was got, by id
    outcome,            \* history: "none", "decoded" or "raised", by id
    fetched,            \* history: page numbers requested, in order
    served,             \* history: anchors the listing has served so far
    listing,            \* history: the anchors served, pages in order of request
    href,               \* parse_links on one anchor: its href
    full_url,           \* parse_links on one anchor: the URL returned (optional)
    response,           \* download_file on one link: what the GET gives
    file_content,       \* download_file on one link: its result (optional)
    requests,           \* download_file on one link: calls of session.get
    content,            \* parse_file on one file: file_content (optional bytes)
    file_date,          \* parse_file on one file: date_file
    batch,              \* parse_file on one file: the list returned (optional)
    open_workbook_calls,\* parse_file on one file: calls of xlrd.open_workbook
    bulletin,           \* the rows of table bulletin, in order of insertion
    ingested,           \* history: batches put_data_into_bd took off the queue
    CACHE_RESET_TIME,   \* cache/config.py: the reset time, seconds after midnight
    redis,              \* RedisClient.redis: "none", or the store "up" or "down"
    connected,          \* history: the clock time of connect() (optional)
    is_running,         \* RedisClient._is_running
    now,                \* the wall clock datetime.now() reads
    pcSched,            \* where RedisClient._scheduler is
    wake,               \* _scheduler: the clock time its sleep ends
    entries,            \* the cache store: the entries it holds
    reply,              \* the last cache call: what the caller got (optional)
    flushes,            \* history: clock times of the scheduler's flushdb
    engine,             \* Database.engine
    session_factory,    \* Database.session_factory
    pcInitDb,           \* Database.init_db: "idle", or how its last call ended
    engines_created,    \* history: calls of create_async_engine that returned
    pg_database,        \* the server: the database db_name exists
    tables,             \* the server: the tables of Base.metadata exist
    api_calls           \* history: the requests to cached handlers and their keys

vars ==
    << today, cutoff_date, max_date, max_date_type, pcMain, session, queue,
       producer_done, queue_data_for_db, producer_db, pcProd, page_number, html,
       links, found_invalid_date, pc, link, pcSink, enqueued, dequeues, outcome,
       fetched, served, listing, href, full_url, response, file_content,
       requests, content, file_date, batch, open_workbook_calls, bulletin,
       ingested, CACHE_RESET_TIME, redis, connected, is_running, now, pcSched,
       wake, entries, reply, flushes, engine, session_factory, pcInitDb,
       engines_created, pg_database, tables, api_calls >>

crawlVars == << today, cutoff_date, max_date, max_date_type >>

prodVars ==
    << pcProd, page_number, html, links, found_invalid_date, fetched, served,
       listing >>

unitVars == << href, full_url, response, file_content, requests >>

fileVars == << content, file_date, batch, open_workbook_calls >>

storeVars == << bulletin, ingested >>

cacheVars ==
    << CACHE_RESET_TIME, redis, connected, is_running, now, pcSched, wake,
       entries, reply, flushes >>

dbVars == << engine, session_factory, pcInitDb, engines_created, pg_database,
            tables >>

(* What the crawl leaves alone: the state of the components exercised on    *)
(* their own.                                                               *)
apiVars == << api_calls >>

asideVars == << unitVars, fileVars, storeVars, cacheVars, dbVars, apiVars >>

workerVars == << pc, link >>

sinkVars == << queue_data_for_db, producer_db, pcSink >>

histVars == << enqueued, dequeues, outcome >>

pipelineVars ==
    << crawlVars, pcMain, session, queue, producer_done, prodVars, workerVars,
       histVars >>

-----------------------------------------------------------------------------
(* SpimexParser._is_valid_date *)

(* _is_valid_date with the high-water mark itself excluded *)
is_valid_date_strict(date_file) ==
    IF date_file > today THEN FALSE
    ELSE IF max_date = NoValue THEN date_file >= cutoff_date
    ELSE max_date[1] < date_file /\ date_file <= today

(* _is_valid_date without the check against the current date *)
is_valid_date_no_future(date_file) ==
    IF max_date = NoValue THEN date_file >= cutoff_date
    ELSE max_date[1] <= date_file /\ date_file <= today

is_valid_date(date_file) ==
    IF date_file > today THEN FALSE
    ELSE IF max_date = NoValue THEN date_file >= cutoff_date
    ELSE max_date[1] <= date_file /\ date_file <= today

(* _is_valid_date raises TypeError: the chained comparison                  *)
(* self.max_date <= date_file is reached with max_date a datetime.date and  *)
(* date_file a datetime, which Python does not order.                       *)
is_valid_date_raises(date_file) ==
    /\ date_file <= today
    /\ max_date # NoValue
    /\ max_date_type = "date"

(* parse_links that leaves its loop at a token that is not a calendar date *)
RECURSIVE parse_links_abort_from(_, _, _)
parse_links_abort_from(anchors, i, result) ==
    IF i > Len(anchors)
    THEN [links |-> result, found_invalid_date |-> FALSE, raised |-> FALSE,
          examined |-> Len(anchors)]
    ELSE IF anchors[i].tok = "malformed"
    THEN [links |-> result, found_invalid_date |-> FALSE, raised |-> FALSE,
          examined |-> i]
    ELSE IF is_valid_date_raises(anchors[i].date)
    THEN [links |-> result, found_invalid_date |-> FALSE, raised |-> TRUE,
          examined |-> i]
    ELSE IF ~is_valid_date(anchors[i].date)
    THEN [links |-> result, found_invalid_date |-> TRUE, raised |-> FALSE,
          examined |-> i]
    ELSE parse_links_abort_from(anchors, i + 1, Append(result, anchors[i].date))

parse_links_abort(anchors) == parse_links_abort_from(anchors, 1, << >>)

(* SpimexParser.parse_links: the loop over the anchors from position i on.  *)
(* examined is the number of anchors the loop looked at; raised tells that  *)
(* an exception other than ValueError left the loop.                        *)
RECURSIVE parse_links_from(_, _, _)
parse_links_from(anchors, i, result) ==
    IF i > Len(anchors)
    THEN [links |-> result, found_invalid_date |-> FALSE, raised |-> FALSE,
          examined |-> Len(anchors)]
    ELSE IF anchors[i].tok = "malformed"
    THEN parse_links_from(anchors, i + 1, result)
    ELSE IF is_valid_date_raises(anchors[i].date)
    THEN [links |-> result, found_invalid_date |-> FALSE, raised |-> TRUE,
          examined |-> i]
    ELSE IF ~is_valid_date(anchors[i].date)
    THEN [links |-> result, found_invalid_date |-> TRUE, raised |-> FALSE,
          examined |-> i]
    ELSE parse_links_from(anchors, i + 1, Append(result, anchors[i].date))

(* parse_links with continue in the place of break *)
RECURSIVE parse_links_continue_from(_, _, _, _)
parse_links_continue_from(anchors, i, result, found) ==
    IF i > Len(anchors)
    THEN [links |-> result, found_invalid_date |-> found, raised |-> FALSE,
          examined |-> Len(anchors)]
    ELSE IF anchors[i].tok = "malformed"
    THEN parse_links_continue_from(anchors, i + 1, result, found)
    ELSE IF is_valid_date_raises(anchors[i].date)
    THEN [links |-> result, found_invalid_date |-> found, raised |-> TRUE,
          examined |-> i]
    ELSE IF ~is_valid_date(anchors[i].date)
    THEN parse_links_continue_from(anchors, i + 1, result, TRUE)
    ELSE parse_links_continue_from(anchors, i + 1, Append(result, anchors[i].date), found)

parse_links_no_break(anchors) == parse_links_continue_from(anchors, 1, << >>, FALSE)

parse_links(anchors) == parse_links_from(anchors, 1, << >>)

(* FileDownloader.download_file: the content returned (optional) or the     *)
(* exception re-raised.                                                     *)
(* download_file that returns None for every failed request *)
download_file_swallow(resp) ==
    IF resp.status = 0 \/ resp.status >= 400
    THEN [raised |-> FALSE, content |-> NoValue, status |-> 0]
    ELSE [raised |-> FALSE, content |-> Some(resp.body), status |-> 0]

download_file(resp) ==
    IF resp.status = 0
    THEN [raised |-> FALSE, content |-> NoValue, status |-> 0]
    ELSE IF resp.status >= 400
    THEN IF resp.status = 404
         THEN [raised |-> FALSE, content |-> NoValue, status |-> 0]
         ELSE [raised |-> TRUE, content |-> NoValue, status |-> resp.status]
    ELSE [raised |-> FALSE, content |-> Some(resp.body), status |-> 0]

(* The position of the first piece t of s, or 0.                            *)
IndexOf(s, t) ==
    IF \E i \in DOMAIN s : s[i] = t
    THEN CHOOSE i \in DOMAIN s : s[i] = t /\ \A j \in 1..(i - 1) : s[j] # t
    ELSE 0

(* urllib.parse.urlparse: the fragment is cut at the first "#", the query   *)
(* at the first "?" before it, then the scheme and the authority.           *)
urlparse(url) ==
    LET h == IndexOf(url, "#")
        beforeFragment == IF h = 0 THEN url ELSE SubSeq(url, 1, h - 1)
        q == IndexOf(beforeFragment, "?")
        beforeQuery == IF q = 0 THEN beforeFragment ELSE SubSeq(beforeFragment, 1, q - 1)
        hasScheme == beforeQuery # << >> /\ Head(beforeQuery) \in Schemes
        afterScheme == IF hasScheme THEN Tail(beforeQuery) ELSE beforeQuery
        hasNetloc == afterScheme # << >> /\ Head(afterScheme) \in Netlocs
    IN  [scheme   |-> IF hasScheme THEN << Head(beforeQuery) >> ELSE << >>,
         netloc   |-> IF hasNetloc THEN << Head(afterScheme) >> ELSE << >>,
         path     |-> IF hasNetloc THEN Tail(afterScheme) ELSE afterScheme,
         query    |-> IF q = 0 THEN << >>
                      ELSE SubSeq(beforeFragment, q + 1, Len(beforeFragment)),
         fragment |-> IF h = 0 THEN << >> ELSE SubSeq(url, h + 1, Len(url))]

(* urllib.parse.urlunparse *)
urlunparse(parts) ==
    parts.scheme \o parts.netloc \o parts.path
        \o (IF parts.query = << >> THEN << >> ELSE << "?" >> \o parts.query)
        \o (IF parts.fragment = << >> THEN << >> ELSE << "#" >> \o parts.fragment)

(* The path of the base up to and including its last separator.             *)
RECURSIVE base_directory(_)
base_directory(path) ==
    IF path = << >> \/ path[Len(path)] = "/" THEN path
    ELSE base_directory(SubSeq(path, 1, Len(path) - 1))

(* urllib.parse.urljoin *)
urljoin(base, url) ==
    LET b == urlparse(base)
        u == urlparse(url)
        scheme == IF u.scheme = << >> THEN b.scheme ELSE u.scheme
    IN  IF url = << >> THEN base
        ELSE IF scheme # b.scheme THEN url
        ELSE IF u.netloc # << >>
        THEN urlunparse([u EXCEPT !.scheme = scheme])
        ELSE IF u.path = << >>
        THEN urlunparse([b EXCEPT !.query = IF u.query = << >> THEN b.query ELSE u.query,
                                  !.fragment = u.fragment])
        ELSE IF Head(u.path) = "/"
        THEN urlunparse([u EXCEPT !.scheme = scheme, !.netloc = b.netloc])
        ELSE urlunparse([u EXCEPT !.scheme = scheme, !.netloc = b.netloc,
                                  !.path = base_directory(b.path) \o u.path])

(* parse_links that joins the href as it is written *)
clean_and_join_keep_query(h) == urljoin(BASE_URL, h)

(* parse_links, lines 351-355: the href without params, query and fragment, *)
(* joined to BASE_URL.                                                      *)
clean_and_join(h) ==
    LET parsed_url == urlparse(h)
        clean_url == urlunparse([parsed_url EXCEPT !.query = << >>, !.fragment = << >>])
    IN  urljoin(BASE_URL, clean_url)

-----------------------------------------------------------------------------
(* FileParser: the cells of a sheet and Python's conversions of them *)

METRIC_TON_UNIT == "Edinitsa izmereniya: Metricheskaya tonna"

ITOGO == "Itogo:"

(* The expected column names with their declared types.                     *)
COLUMN_NAMES ==
    [c \in {"Kod Instrumenta", "Naimenovanie Instrumenta", "Bazis postavki",
            "Obem Dogovorov v edinitsakh izmereniya", "Obem Dogovorov, rub.",
            "Kolichestvo Dogovorov, sht."} |->
        IF c \in {"Kod Instrumenta", "Naimenovanie Instrumenta", "Bazis postavki"}
        THEN "str" ELSE "int"]

FIELD_NAMES ==
    [exchange_product_id |-> "Kod Instrumenta",
     exchange_product_name |-> "Naimenovanie Instrumenta",
     delivery_basis_name |-> "Bazis postavki",
     volume |-> "Obem Dogovorov v edinitsakh izmereniya",
     total |-> "Obem Dogovorov, rub.",
     count |-> "Kolichestvo Dogovorov, sht."]

(* A text is the sequence of its pieces: single characters, and the markers *)
(* and column names as whole pieces, each with the length of its string.    *)
WordLen ==
    [w \in {METRIC_TON_UNIT, ITOGO} \cup DOMAIN COLUMN_NAMES |->
        CASE w = METRIC_TON_UNIT -> 36
          [] w = ITOGO -> 6
          [] w = "Kod Instrumenta" -> 15
          [] w = "Naimenovanie Instrumenta" -> 24
          [] w = "Bazis postavki" -> 14
          [] w = "Obem Dogovorov v edinitsakh izmereniya" -> 36
          [] w = "Obem Dogovorov, rub." -> 21
          [] w = "Kolichestvo Dogovorov, sht." -> 25]

RECURSIVE len(_)
len(text) ==
    IF text = << >> THEN 0
    ELSE (IF Head(text) \in DOMAIN WordLen THEN WordLen[Head(text)] ELSE 1)
            + len(Tail(text))

(* A cell as sheet.row_values gives it: a str (empty for an empty cell) or  *)
(* a float, held in halves so that 0.5 and 2.5 are values.                  *)
Text(s) == [type |-> "str", text |-> s, halves |-> 0]

Number(h) == [type |-> "float", text |-> << >>, halves |-> h]

Empty == Text(<< >>)

(* Python's truth value of a cell *)
truth(cell) == IF cell.type = "str" THEN cell.text # << >> ELSE cell.halves # 0

Whitespace == {" ", "\n", "\t"}

RECURSIVE lstrip(_)
lstrip(s) == IF s # << >> /\ Head(s) \in Whitespace THEN lstrip(Tail(s)) ELSE s

RECURSIVE rstrip(_)
rstrip(s) ==
    IF s # << >> /\ s[Len(s)] \in Whitespace
    THEN rstrip(SubSeq(s, 1, Len(s) - 1))
    ELSE s

strip(s) == rstrip(lstrip(s))

DigitChar == << "0", "1", "2", "3", "4", "5", "6", "7", "8", "9" >>

DigitValue(c) == (CHOOSE i \in 1..10 : DigitChar[i] = c) - 1

IsDigits(s) ==
    s # << >> /\ \A i \in 1..Len(s) : \E j \in 1..10 : DigitChar[j] = s[i]

RECURSIVE DecimalValue(_)
DecimalValue(s) ==
    IF s = << >> THEN 0
    ELSE 10 * DecimalValue(SubSeq(s, 1, Len(s) - 1)) + DigitValue(s[Len(s)])

RECURSIVE DigitsOf(_)
DigitsOf(n) ==
    IF n < 10 THEN << DigitChar[n + 1] >>
    ELSE DigitsOf(n \div 10) \o << DigitChar[(n % 10) + 1] >>

(* float(x): a float is itself; a str is stripped and read as a signed      *)
(* decimal integer, as inf or as nan, and anything else is a ValueError.    *)
float(cell) ==
    IF cell.type = "float"
    THEN [raised |-> "", kind |-> "finite", halves |-> cell.halves]
    ELSE LET t == strip(cell.text)
             neg == t # << >> /\ Head(t) = "-"
             body == IF neg THEN Tail(t) ELSE t
         IN  IF body = << "i", "n", "f" >>
             THEN [raised |-> "", kind |-> "inf", halves |-> 0]
             ELSE IF body = << "n", "a", "n" >>
             THEN [raised |-> "", kind |-> "nan", halves |-> 0]
             ELSE IF IsDigits(body)
             THEN [raised |-> "", kind |-> "finite",
                   halves |-> (IF neg THEN -2 ELSE 2) * DecimalValue(body)]
             ELSE [raised |-> "ValueError", kind |-> "finite", halves |-> 0]

(* int(f): truncation towards zero; OverflowError for an infinity and       *)
(* ValueError for a nan.                                                    *)
int(f) ==
    IF f.kind = "inf" THEN [raised |-> "OverflowError", value |-> 0]
    ELSE IF f.kind = "nan" THEN [raised |-> "ValueError", value |-> 0]
    ELSE [raised |-> "",
          value |-> IF f.halves >= 0 THEN f.halves \div 2
                    ELSE -((-f.halves) \div 2)]

(* str(x) of a cell: the text, or the repr of the float ("2.0", "-0.5") *)
str(cell) ==
    IF cell.type = "str" THEN cell.text
    ELSE LET a == IF cell.halves >= 0 THEN cell.halves ELSE -cell.halves
         IN  (IF cell.halves < 0 THEN << "-" >> ELSE << >>)
                \o DigitsOf(a \div 2)
                \o << ".", IF a % 2 = 1 THEN "5" ELSE "0" >>

(* s[a:b] *)
Slice(s, a, b) == SubSeq(s, a + 1, IF b < Len(s) THEN b ELSE Len(s))

-----------------------------------------------------------------------------
(* FileParser *)

(* process_headers: the index of every expected column name found in the    *)
(* row (the last one, when a name occurs twice), or the empty dict when     *)
(* one is missing.                                                          *)
process_headers(row) ==
    LET names(col_idx) ==
            IF row[col_idx + 1].type = "str"
            THEN {c \in DOMAIN COLUMN_NAMES : strip(row[col_idx + 1].text) = << c >>}
            ELSE {}
        column_indices ==
            [c \in UNION {names(i) : i \in 0..(Len(row) - 1)} |->
                CHOOSE i \in 0..(Len(row) - 1) :
                    /\ c \in names(i)
                    /\ \A j \in 0..(Len(row) - 1) : c \in names(j) => j <= i]
    IN  IF DOMAIN column_indices = DOMAIN COLUMN_NAMES
        THEN column_indices
        ELSE << >>

(* int(float(row[col_idx])) if len(row) > col_idx and row[col_idx] else 0,  *)
(* inside try ... except (ValueError, TypeError): 0.  An OverflowError is   *)
(* not caught.                                                              *)
int_float_or_zero(row, col_idx) ==
    IF Len(row) > col_idx /\ truth(row[col_idx + 1])
    THEN LET f == float(row[col_idx + 1])
         IN  IF f.raised # "" THEN [raised |-> "", value |-> 0]
             ELSE IF int(f).raised = "ValueError" THEN [raised |-> "", value |-> 0]
             ELSE int(f)
    ELSE [raised |-> "", value |-> 0]

(* The value of one field of the record, by the declared type of its column *)
field_value(row, column_indices, field_key) ==
    LET col_name == FIELD_NAMES[field_key]
        col_idx == column_indices[col_name]
    IN  IF COLUMN_NAMES[col_name] = "int"
        THEN int_float_or_zero(row, col_idx)
        ELSE [raised |-> "",
              value |-> IF Len(row) > col_idx /\ truth(row[col_idx + 1])
                        THEN strip(str(row[col_idx + 1]))
                        ELSE << >>]

(* The record of a row with count > 0 *)
row_record(row, column_indices, date_bulletin) ==
    [k \in DOMAIN FIELD_NAMES \cup {"date"} |->
        IF k = "date" THEN date_bulletin
        ELSE field_value(row, column_indices, k).value]

(* valid_row_in_dict_for_db that keeps every row whose count is not negative *)
valid_row_in_dict_for_db_any_count(row, column_indices, date_bulletin) ==
    LET count == int_float_or_zero(row, column_indices[FIELD_NAMES.count])
        raising ==
            {k \in DOMAIN FIELD_NAMES : field_value(row, column_indices, k).raised # ""}
    IN  IF count.raised # "" THEN [raised |-> count.raised, result |-> << >>]
        ELSE IF count.value >= 0
        THEN IF raising # {}
             THEN [raised |-> "OverflowError", result |-> << >>]
             ELSE [raised |-> "",
                   result |-> << row_record(row, column_indices, date_bulletin) >>]
        ELSE [raised |-> "", result |-> << >>]

(* valid_row_in_dict_for_db: the records of one row (none or one), or the   *)
(* exception that leaves it.                                                *)
valid_row_in_dict_for_db(row, column_indices, date_bulletin) ==
    LET count == int_float_or_zero(row, column_indices[FIELD_NAMES.count])
        raising ==
            {k \in DOMAIN FIELD_NAMES : field_value(row, column_indices, k).raised # ""}
    IN  IF count.raised # "" THEN [raised |-> count.raised, result |-> << >>]
        ELSE IF count.value > 0
        THEN IF raising # {}
             THEN [raised |-> "OverflowError", result |-> << >>]
             ELSE [raised |-> "",
                   result |-> << row_record(row, column_indices, date_bulletin) >>]
        ELSE [raised |-> "", result |-> << >>]

DerivedKeys == {"oil_id", "delivery_basis_id", "delivery_type_id"}

(* add_new_key_in_dict_for_db that takes the type from the product id *)
add_new_key_in_dict_for_db_type_from_id(data) ==
    IF \E i \in 1..Len(data) : data[i].exchange_product_id = << >>
    THEN [raised |-> "IndexError", result |-> << >>]
    ELSE [raised |-> "",
          result |->
            [i \in 1..Len(data) |->
                LET id == data[i].exchange_product_id
                IN  [k \in DOMAIN data[i] \cup DerivedKeys |->
                        CASE k = "oil_id" -> Slice(id, 0, 4)
                          [] k = "delivery_basis_id" -> Slice(id, 4, 7)
                          [] k = "delivery_type_id" -> << id[Len(id)] >>
                          [] OTHER -> data[i][k]]]]

(* add_new_key_in_dict_for_db: the three derived keys of every entry; [-1]  *)
(* of an empty delivery_basis_id is an IndexError.                          *)
add_new_key_in_dict_for_db(data) ==
    IF \E i \in 1..Len(data) : Slice(data[i].exchange_product_id, 4, 7) = << >>
    THEN [raised |-> "IndexError", result |-> << >>]
    ELSE [raised |-> "",
          result |->
            [i \in 1..Len(data) |->
                LET id == data[i].exchange_product_id
                    delivery_basis_id == Slice(id, 4, 7)
                IN  [k \in DOMAIN data[i] \cup DerivedKeys |->
                        CASE k = "oil_id" -> Slice(id, 0, 4)
                          [] k = "delivery_basis_id" -> delivery_basis_id
                          [] k = "delivery_type_id" ->
                                << delivery_basis_id[Len(delivery_basis_id)] >>
                          [] OTHER -> data[i][k]]]]

(* not_file_content *)
not_file_content(file_bytes) == file_bytes # NoValue

(* bytes.startswith *)
startswith(bytes, prefix) == bytes.head # << >> /\ Head(bytes.head) = prefix

(* checking_html_file that knows the doctype only *)
checking_html_file_doctype_only(bytes) == ~startswith(bytes, "<!DOCTYPE")

(* checking_html_file: False for HTML *)
checking_html_file(bytes) ==
    ~(startswith(bytes, "<!DOCTYPE") \/ startswith(bytes, "<html"))

(* xls_to_list_data: the rows of the first sheet; an XLRDError is caught    *)
(* and gives no rows, any other exception leaves it.                        *)
xls_to_list_data(bytes) ==
    IF bytes.open_workbook = "ok" THEN [raised |-> "", data |-> bytes.data]
    ELSE IF bytes.open_workbook = "XLRDError" THEN [raised |-> "", data |-> << >>]
    ELSE [raised |-> bytes.open_workbook, data |-> << >>]

(* len(row) > 1 and isinstance(row[1], str) and (one of the words in row[1]) *)
second_cell_has(row, words) ==
    /\ Len(row) > 1
    /\ row[2].type = "str"
    /\ \E i \in 1..Len(row[2].text) : row[2].text[i] \in words

(* parse_file, lines 56-60: the locals before the loop *)
BeforeRows ==
    [result |-> << >>, in_metric_ton_section |-> FALSE, skip_next_row |-> FALSE,
     column_indices |-> << >>, raised |-> ""]

(* parse_file, lines 63-118: the loop over the rows from row `index` on,    *)
(* `caught` being the exceptions the handler of line 116 catches.  The      *)
(* result is the locals after the loop, or the exception that left it.      *)
RECURSIVE scan_rows(_, _, _, _, _)
scan_rows(data, index, st, caught, date_file_) ==
    IF index > Len(data) \/ st.raised # "" THEN st
    ELSE
    LET row == data[index]
        continue(s) == scan_rows(data, index + 1, s, caught, date_file_)
    IN  IF second_cell_has(row, {METRIC_TON_UNIT})
        THEN continue([st EXCEPT !.in_metric_ton_section = TRUE])
        ELSE IF st.skip_next_row
        THEN continue([st EXCEPT !.skip_next_row = FALSE])
        ELSE IF DOMAIN st.column_indices = {} /\ st.in_metric_ton_section
        THEN LET column_indices == process_headers(row)
             IN  continue([st EXCEPT !.column_indices = column_indices,
                                     !.skip_next_row = DOMAIN column_indices # {}])
        ELSE IF second_cell_has(row, {METRIC_TON_UNIT, ITOGO})
        THEN continue([st EXCEPT !.in_metric_ton_section = FALSE])
        ELSE IF ~st.in_metric_ton_section
        THEN continue(st)
        ELSE IF Len(row) < 2
        THEN [st EXCEPT !.raised = "IndexError"]
        ELSE IF truth(row[2]) /\ row[2].type = "str" /\ len(row[2].text) > 3
        THEN LET new == valid_row_in_dict_for_db(row, st.column_indices, date_file_)
             IN  IF new.raised = ""
                 THEN continue([st EXCEPT !.result = st.result \o new.result])
                 ELSE IF new.raised \in caught
                 THEN continue(st)
                 ELSE [st EXCEPT !.raised = new.raised]
        ELSE continue(st)

(* parse_file: the list returned and the calls of xlrd.open_workbook made.  *)
(* Every exception of lines 51-124 is caught at line 126 and gives [].      *)
parse_file(file_bytes, date_file_) ==
    IF ~not_file_content(file_bytes)
    THEN [result |-> << >>, open_workbook_calls |-> 0]
    ELSE IF ~checking_html_file(file_bytes[1])
    THEN [result |-> << >>, open_workbook_calls |-> 0]
    ELSE
    LET data == xls_to_list_data(file_bytes[1])
        st == scan_rows(data.data, 1, BeforeRows, {"ValueError", "IndexError"},
                        date_file_)
        result == add_new_key_in_dict_for_db(st.result)
    IN  IF data.raised # "" \/ st.raised # "" \/ result.raised # ""
        THEN [result |-> << >>, open_workbook_calls |-> 1]
        ELSE [result |-> result.result, open_workbook_calls |-> 1]

-----------------------------------------------------------------------------
(* The files parse_file is given *)

MaxDataRows == 2

Row(c1, c2, c3, c4, c5, c6) == << Empty, c1, c2, c3, c4, c5, c6 >>

(* The row that opens the section, and the row of totals that closes it.    *)
SectionRow ==
    Row(Text(<< METRIC_TON_UNIT >>), Empty, Empty, Empty, Empty, Empty)

TotalsRow == Row(Text(<< ITOGO >>), Empty, Empty, Number(8), Number(8), Number(4))

(* Header rows: all the names (one of them padded), the same names with     *)
(* volume and count in each other's place, and a row without the count      *)
(* column.                                                                  *)
HeaderRow ==
    Row(Text(<< "Kod Instrumenta" >>), Text(<< "Naimenovanie Instrumenta" >>),
        Text(<< " ", "Bazis postavki", "\n" >>),
        Text(<< "Obem Dogovorov v edinitsakh izmereniya" >>),
        Text(<< "Obem Dogovorov, rub." >>),
        Text(<< "Kolichestvo Dogovorov, sht." >>))

HeaderRowReordered ==
    Row(Text(<< "Kod Instrumenta" >>), Text(<< "Naimenovanie Instrumenta" >>),
        Text(<< "Bazis postavki" >>),
        Text(<< "Kolichestvo Dogovorov, sht." >>),
        Text(<< "Obem Dogovorov, rub." >>),
        Text(<< "Obem Dogovorov v edinitsakh izmereniya" >>))

HeaderRowIncomplete ==
    Row(Text(<< "Kod Instrumenta" >>), Text(<< "Naimenovanie Instrumenta" >>),
        Text(<< "Bazis postavki" >>),
        Text(<< "Obem Dogovorov v edinitsakh izmereniya" >>),
        Text(<< "Obem Dogovorov, rub." >>), Empty)

(* The row of sub-headers: nothing in its second cell.                      *)
SubHeaderRow == Row(Empty, Empty, Empty, Text(<< "t" >>), Text(<< "r" >>), Empty)

ProductIds ==
    {<< "A", "5", "9", "2", "B", "O", "0", "2", "A" >>,
     << "A", "1", "0", "0", "A", "N", "K" >>,
     << "A", "5", "9", "2" >>}

(* What the count cell of a data row holds: 1.0, 2.5, "3", and the cells    *)
(* that give no count: empty, 0.0, -1.0, 0.5, "abc", "nan", "inf".          *)
CountCells ==
    {Number(2), Number(5), Text(<< " ", "3" >>), Empty, Number(0), Number(-2),
     Number(1), Text(<< "a", "b", "c" >>), Text(<< "n", "a", "n" >>),
     Text(<< "i", "n", "f" >>)}

DataRow(id, count) ==
    Row(Text(id), Text(<< "B", "e", "n", "z", "i", "n", " " >>), Number(3),
        Number(4), Text(<< "1", "2", "0" >>), count)

(* A row of one contract whose volume cell holds -1.5 and whose total cell  *)
(* holds "-5".                                                              *)
NegativeVolumeRow ==
    Row(Text(<< "A", "5", "9", "2", "B", "O", "0", "2", "A" >>),
        Text(<< "B", "e", "n", "z", "i", "n", " " >>), Number(3),
        Number(-3), Text(<< "-", "5" >>), Number(2))

DataRows ==
    {DataRow(<< "A", "5", "9", "2", "B", "O", "0", "2", "A" >>, c) : c \in CountCells}
        \cup {DataRow(id, Number(2)) : id \in ProductIds}
        \cup {NegativeVolumeRow}

(* How a sheet starts, and the rows that follow.                            *)
SheetHeads ==
    {<< >>,
     << SectionRow >>,
     << SectionRow, HeaderRow >>,
     << SectionRow, HeaderRow, SubHeaderRow >>,
     << SectionRow, HeaderRowReordered, SubHeaderRow >>,
     << SectionRow, HeaderRowIncomplete, SubHeaderRow >>,
     << SectionRow, HeaderRowIncomplete, HeaderRow, SubHeaderRow >>,
     << SectionRow, SubHeaderRow, HeaderRow, SubHeaderRow >>}

Sheets ==
    {h \o b : h \in SheetHeads,
              b \in SeqsUpTo(DataRows \cup {TotalsRow, SectionRow}, MaxDataRows)}

(* The bytes of a file: what they start with, what xlrd.open_workbook does  *)
(* with them, and the rows of the first sheet when it reads them.           *)
Bytes(head, open_workbook, data) ==
    [head |-> head, open_workbook |-> open_workbook, data |-> data]

FileContents ==
    {NoValue}
        \cup {Some(Bytes(h, "XLRDError", << >>)) :
                h \in {<< "<!DOCTYPE", " html>" >>, << "<html", ">" >>,
                       << "<HTML>" >>, << " ", "<html", ">" >>, << "PK" >>}}
        \cup {Some(Bytes(<< "D0CF11E0" >>, "CompDocError", << >>))}
        \cup {Some(Bytes(<< "D0CF11E0" >>, "ok", g)) : g \in Sheets}

-----------------------------------------------------------------------------
(* Table bulletin and the batches Database.put_data_into_bd is given *)

MaxBatches == 2

MaxBatchLen == 2

(* The columns of a record that the constraints of the table read, with     *)
(* one product on one date at two volumes, and a negative volume.           *)
BulletinRecords ==
    [exchange_product_id : {"A592BO02A"}, date : {MaxDay}, volume : {1, 2}]
        \cup [exchange_product_id : {"A100ANK060F"}, date : {MaxDay}, volume : {-1, 1}]

RecordBatches == SeqsUpTo(BulletinRecords, MaxBatchLen)

(* UniqueConstraint("exchange_product_id", "date") *)
uix_exchange_product_id_data(rows) ==
    \A i, j \in 1..Len(rows) :
        (/\ rows[i].exchange_product_id = rows[j].exchange_product_id
         /\ rows[i].date = rows[j].date) => i = j

(* CheckConstraint("volume >= 0") *)
volume_check(rows) == \A i \in 1..Len(rows) : rows[i].volume >= 0

(* insert(Bulletin) into a table without the unique constraint *)
insert_unconstrained(rows, data_bulletin) ==
    IF volume_check(data_bulletin)
    THEN [raised |-> "", rows |-> rows \o data_bulletin]
    ELSE [raised |-> "IntegrityError", rows |-> rows]

(* insert(Bulletin) row by row, each row committed on its own: the rows a   *)
(* constraint rejects are left out and the others are stored               *)
insert_row_by_row(rows, data_bulletin) ==
    LET accepted(r) ==
            /\ r.volume >= 0
            /\ \A i \in 1..Len(rows) :
                    ~(/\ rows[i].exchange_product_id = r.exchange_product_id
                      /\ rows[i].date = r.date)
        kept == SelectSeq(data_bulletin, accepted)
    IN  [raised |-> IF kept = data_bulletin THEN "" ELSE "IntegrityError",
         rows |-> rows \o kept]

(* session.execute(insert(Bulletin), data_bulletin) and commit, in one      *)
(* transaction: all the rows are added, or a constraint fails and none is.  *)
insert(rows, data_bulletin) ==
    IF uix_exchange_product_id_data(rows \o data_bulletin) /\ volume_check(data_bulletin)
    THEN [raised |-> "", rows |-> rows \o data_bulletin]
    ELSE [raised |-> "IntegrityError", rows |-> rows]

-----------------------------------------------------------------------------
(* RedisClient and the cached decorator *)

(* The clock counts ticks of half a second from midnight of the first day   *)
(* of a month.  A day of SecondsPerDay seconds stands for the 86400 of a    *)
(* real one, a month of MonthDays days for the 28 to 31 of a real one, and  *)
(* RetrySeconds for the 60 seconds the scheduler waits after an error: as   *)
(* there, it divides the day.                                               *)
TicksPerSecond == 2

SecondsPerDay == 4

MonthDays == 2

MaxMonths == 2

RetrySeconds == 1

TicksPerDay == TicksPerSecond * SecondsPerDay

Instants == 0..(MaxMonths * MonthDays * TicksPerDay)

(* CACHE_RESET_TIME: "00:00", and a time in the day like the default        *)
(* "14:11".                                                                 *)
ResetTimes == {0, SecondsPerDay \div 2}

Keys == {"dynamics:get_dynamics:1", "last:get_last_dates:2"}

Patterns == {"*", "dynamics:*"}

(* What a handler returns: None, rows of strings and numbers, or rows that  *)
(* hold date objects.                                                       *)
Values == {"None", "rows", "rows with dates"}

(* now.date(), as the number of the day, and now.day *)
date(t) == t \div TicksPerDay

day(t) == (date(t) % MonthDays) + 1

(* datetime.combine(date, reset_time) *)
combine(d, reset_time) == d * TicksPerDay + reset_time * TicksPerSecond

(* The next reset as both _scheduler and _get_ttl_until_reset compute it:   *)
(* today's, or when that is not after now the one of                        *)
(* now.date().replace(day=now.day + 1), a ValueError when this month has    *)
(* no such day.                                                             *)
next_reset(t) ==
    IF combine(date(t), CACHE_RESET_TIME) <= t
    THEN IF day(t) + 1 > MonthDays
         THEN [raised |-> "ValueError", at |-> 0]
         ELSE [raised |-> "", at |-> combine(date(t) + 1, CACHE_RESET_TIME)]
    ELSE [raised |-> "", at |-> combine(date(t), CACHE_RESET_TIME)]

(* _get_ttl_until_reset: int((next_reset - now).total_seconds()) *)
get_ttl_until_reset(t) ==
    [raised |-> next_reset(t).raised,
     ttl |-> IF next_reset(t).raised = "" THEN (next_reset(t).at - t) \div TicksPerSecond
             ELSE 0]

(* json.dumps(value, default=str) and json.loads *)
(* json.dumps(value, default=str): the dates are written as their str, so  *)
(* the text of rows with dates is the text of rows of strings.              *)
dumps(value) ==
    IF value = "None" THEN "null"
    ELSE IF value = "rows with dates" THEN << "json", "rows" >>
    ELSE << "json", value >>

loads(text) == IF text = "null" THEN "None" ELSE text[2]

(* keys matching a pattern *)
keys(store, pattern) ==
    {k \in DOMAIN store : pattern = "*" \/ (pattern = "dynamics:*" /\ k = "dynamics:get_dynamics:1")}

Without(store, ks) == [k \in (DOMAIN store) \ ks |-> store[k]]

(* The outcome of a call on the client: what it returns or raises, and the  *)
(* store after it.                                                          *)
Returns(value, store) == [raised |-> "", returned |-> value, entries |-> store]

(* get without the handler of its exceptions *)
get_unguarded(key) ==
    IF redis = "none" THEN Returns("None", entries)
    ELSE IF redis = "down"
    THEN [raised |-> "ConnectionError", returned |-> "None", entries |-> entries]
    ELSE IF key \in DOMAIN entries
    THEN Returns(loads(entries[key].value), entries)
    ELSE Returns("None", entries)

(* RedisClient.get *)
get(key) ==
    IF redis = "none" THEN Returns("None", entries)
    ELSE IF redis = "down" THEN Returns("None", entries)
    ELSE IF key \in DOMAIN entries
    THEN Returns(loads(entries[key].value), entries)
    ELSE Returns("None", entries)

(* RedisClient.set: the TTL is computed, then the store is asked to SET     *)
(* with EX, which it refuses for a TTL that is not positive; every          *)
(* exception gives False.                                                   *)
set(key, value, ttl) ==
    IF redis = "none" THEN Returns("False", entries)
    ELSE
    LET ex == IF ttl = NoValue THEN get_ttl_until_reset(now)
              ELSE [raised |-> "", ttl |-> ttl[1]]
    IN  IF ex.raised # "" \/ redis = "down" \/ ex.ttl <= 0
        THEN Returns("False", entries)
        ELSE Returns("True",
                     [k \in DOMAIN entries \cup {key} |->
                        IF k = key THEN [value |-> dumps(value), ttl |-> ex.ttl]
                        ELSE entries[k]])

(* RedisClient.delete *)
delete(key) ==
    IF redis # "up" THEN Returns("False", entries)
    ELSE Returns("True", Without(entries, {key}))

(* RedisClient.delete_pattern *)
delete_pattern(pattern) ==
    IF redis # "up" THEN Returns("False", entries)
    ELSE Returns("True", Without(entries, keys(entries, pattern)))

(* RedisClient.clear_all_cache *)
clear_all_cache ==
    IF redis # "up" THEN Returns("False", entries)
    ELSE Returns("True", << >>)

(* cached whose wrapper does not look into the cache *)
wrapper_no_read(key, result) ==
    [raised |-> set(key, result, NoValue).raised, returned |-> result,
     entries |-> set(key, result, NoValue).entries, ran |-> TRUE]

(* cached: the wrapper around a handler that returns `result`.  What the    *)
(* cache holds is returned; otherwise the handler runs, its result is set   *)
(* and returned.                                                            *)
wrapper(key, result) ==
    LET cached_result == get(key)
    IN  IF cached_result.raised # ""
        THEN [raised |-> cached_result.raised, returned |-> "None",
              entries |-> entries, ran |-> FALSE]
        ELSE IF cached_result.returned # "None"
        THEN [raised |-> "", returned |-> cached_result.returned,
              entries |-> entries, ran |-> FALSE]
        ELSE [raised |-> set(key, result, NoValue).raised, returned |-> result,
              entries |-> set(key, result, NoValue).entries, ran |-> TRUE]

-----------------------------------------------------------------------------
(* The key of a cached handler *)

(* The handlers views.py decorates with cached, and their key_prefix.       *)
Handlers ==
    {[key_prefix |-> "dynamics", name |-> "get_dynamics"],
     [key_prefix |-> "trading_results", name |-> "get_trading_results"]}

(* The query argument oil_id of a request: absent, or a product.            *)
QueryValues ==
    {[type |-> "NoneType", text |-> "None"], [type |-> "str", text |-> "A592"]}

(* The session get_session yields to a request is a new object, at an       *)
(* address the allocator chooses.                                           *)
Addresses == {"0x7f3a5c0888d0", "0x7f3a5c088910"}

SessionObjects == {[type |-> "AsyncSession", text |-> a] : a \in Addresses}

(* repr(value), as the f-string of cache_key writes a value: an object      *)
(* without __repr__ is written with its type and its address.               *)
repr(value) ==
    CASE value.type = "str" -> << "'", value.text, "'" >>
      [] value.type = "AsyncSession" ->
            << "<sqlalchemy.ext.asyncio.session.AsyncSession object at ",
               value.text, ">" >>
      [] OTHER -> << value.text >>

(* The names of the keyword arguments, in the order sorted() puts them.     *)
ParameterNames == << "oil_id", "session" >>

(* sorted(kwargs.items()): the names are all different, so the items are    *)
(* ordered by name.                                                         *)
sorted(items) ==
    LET rank(name) == CHOOSE i \in 1..Len(ParameterNames) : ParameterNames[i] = name
    IN  SortSeq(items, LAMBDA a, b : rank(a[1]) < rank(b[1]))

(* cache_key: the md5 of the text of args and of the sorted keyword items   *)
cache_key(args, kwargs) ==
    << "md5",
       [i \in 1..Len(args) |-> repr(args[i])],
       [i \in 1..Len(kwargs) |-> << sorted(kwargs)[i][1], repr(sorted(kwargs)[i][2]) >>] >>

(* wrapper, line 25: f"{key_prefix}:{func.__name__}:{cache_key(...)}"        *)
cache_key_value(handler, args, kwargs) ==
    << handler.key_prefix, handler.name, cache_key(args, kwargs) >>

-----------------------------------------------------------------------------
(* Database: engine and session factory *)

MaxEngines == 6

(* How the connection to the server made by create_db ends: it serves the  *)
(* statements, it fails with an exception, or the task is cancelled while   *)
(* it waits.                                                                *)
ConnectOutcomes == {"ok", "Exception", "CancelledError"}

(* How create_async_engine and the creation of the tables end.              *)
CallOutcomes == {"ok", "Exception"}

(* create_db: the database is created when the server has none of the name; *)
(* every Exception is logged, what is no Exception leaves the method.       *)
create_db(connect) ==
    [raised |-> IF connect = "CancelledError" THEN connect ELSE "",
     pg_database |-> pg_database \/ connect = "ok"]

(* Base.metadata.create_all through the engine: it needs the database.      *)
create_all(db, run_sync) == IF db THEN run_sync ELSE "Exception"

(* init_db without the handler around the creation of the tables *)
init_db_tables_unguarded(connect, create_async_engine, tables_outcome) ==
    LET db == create_db(connect)
        unchanged == [engine |-> engine, session_factory |-> session_factory,
                      engines_created |-> engines_created,
                      pg_database |-> db.pg_database, tables |-> tables]
        made == create_all(db.pg_database, tables_outcome)
    IN  IF db.raised # ""
        THEN [unchanged EXCEPT !.pg_database = pg_database] @@ [raised |-> db.raised]
        ELSE IF create_async_engine # "ok"
        THEN unchanged @@ [raised |-> create_async_engine]
        ELSE IF made # "ok"
        THEN [unchanged EXCEPT !.engine = Some(engines_created + 1),
                               !.engines_created = engines_created + 1]
                @@ [raised |-> made]
        ELSE [raised |-> "", engine |-> Some(engines_created + 1),
              session_factory |-> Some(engines_created + 1),
              engines_created |-> engines_created + 1,
              pg_database |-> db.pg_database, tables |-> TRUE]

(* init_db: create_db, then the engine is created and assigned, the tables  *)
(* are created with every exception logged, and the session factory is      *)
(* made on the engine.  An engine is the number of the call that made it.   *)
init_db(connect, create_async_engine, tables_outcome) ==
    LET db == create_db(connect)
        unchanged == [engine |-> engine, session_factory |-> session_factory,
                      engines_created |-> engines_created,
                      pg_database |-> db.pg_database, tables |-> tables]
        made == create_all(db.pg_database, tables_outcome)
    IN  IF db.raised # ""
        THEN [unchanged EXCEPT !.pg_database = pg_database] @@ [raised |-> db.raised]
        ELSE IF create_async_engine # "ok"
        THEN unchanged @@ [raised |-> create_async_engine]
        ELSE [raised |-> "", engine |-> Some(engines_created + 1),
              session_factory |-> Some(engines_created + 1),
              engines_created |-> engines_created + 1,
              pg_database |-> db.pg_database, tables |-> tables \/ made = "ok"]

-----------------------------------------------------------------------------
(* The crawl *)

(* the consumers' stop condition without the producer_done event *)
ConsumerStopQueueOnly == queue = << >>

(* The condition of the consumers' while loop, negated.                     *)
ConsumerStop == producer_done /\ queue = << >>

(* the sink's stop condition without the test of the records queue         *)
CompletionPredicateCounterOnly == producer_db = 0

(* The condition of the sink's while loop, negated.                         *)
CompletionPredicate == producer_db = 0 /\ queue_data_for_db = << >>

(* What a GET of a listing page can give: None, or a page.  The whole       *)
(* listing holds at most MaxAnchors anchors.                                *)
PageResults ==
    {NoValue} \cup {Some(p) : p \in {q \in Pages : served + Len(q) <= MaxAnchors}}

(* The components that are exercised on their own, not yet called.          *)
FileParserIdle ==
    /\ content = NoValue
    /\ file_date = 0
    /\ batch = NoValue
    /\ open_workbook_calls = 0

StoreIdle ==
    /\ bulletin = << >>
    /\ ingested = << >>

CacheIdle ==
    /\ CACHE_RESET_TIME = 0
    /\ redis = "none"
    /\ connected = NoValue
    /\ is_running = FALSE
    /\ now = 0
    /\ pcSched = "idle"
    /\ wake = 0
    /\ entries = << >>
    /\ reply = NoValue
    /\ flushes = {}

ApiIdle == api_calls = {}

DatabaseIdle ==
    /\ engine = NoValue
    /\ session_factory = NoValue
    /\ pcInitDb = "idle"
    /\ engines_created = 0
    /\ pg_database = FALSE
    /\ tables = FALSE

-----------------------------------------------------------------------------
(* The parser as constructed.  queue_data_for_db and producer_db are the    *)
(* attributes main() and put_data_into_bd read; test_spimexparser_init      *)
(* gives their initial values, and no statement of SpimexParser writes      *)
(* them.  The high-water mark is held as a day of the same calendar as the  *)
(* report dates.                                                            *)
Init ==
    /\ today \in Dates
    /\ cutoff_date = DEFAULT_CUTOFF_DATE
    /\ max_date = NoValue
    /\ max_date_type = "none"
    /\ pcMain = "get_max"
    /\ session = "none"
    /\ queue = << >>
    /\ producer_done = FALSE
    /\ queue_data_for_db = << >>
    /\ producer_db = 0
    /\ pcProd = "idle"
    /\ page_number = 1
    /\ html = NoValue
    /\ links = << >>
    /\ found_invalid_date = FALSE
    /\ pc = [w \in Workers |-> "idle"]
    /\ link = [w \in Workers |-> NoValue]
    /\ pcSink = "idle"
    /\ enqueued = << >>
    /\ dequeues = << >>
    /\ outcome = << >>
    /\ fetched = << >>
    /\ served = 0
    /\ listing = << >>
    /\ href = NoHref
    /\ full_url = NoValue
    /\ response = NoResponse
    /\ file_content = NoValue
    /\ requests = 0
    /\ FileParserIdle
    /\ StoreIdle
    /\ CacheIdle
    /\ DatabaseIdle
    /\ ApiIdle

(* main: max_date = await db.get_max_data_bulletin(); SpimexParser(...) *)
MainGetMaxDate ==
    /\ pcMain = "get_max"
    /\ \E m \in OptionalDates :
        /\ max_date' = m
        /\ max_date_type' = IF m = NoValue THEN "none" ELSE "date"
    /\ pcMain' = "run"
    /\ UNCHANGED << today, cutoff_date, session, queue, producer_done >>
    /\ UNCHANGED << prodVars, workerVars, sinkVars, histVars >>
    /\ UNCHANGED asideVars

(* run: start_session, then create_task for the producer and the consumers *)
RunStart ==
    /\ pcMain = "run"
    /\ session' = "open"
    /\ pcProd' = "fetch"
    /\ pc' = [w \in Workers |-> "loop"]
    /\ pcMain' = "gather"
    /\ UNCHANGED << crawlVars, queue, producer_done, page_number, html, links,
                    found_invalid_date, fetched, served, listing, link >>
    /\ UNCHANGED << sinkVars, histVars >>
    /\ UNCHANGED asideVars

(* run awaiting the producer task only *)
RunReturnProducerOnly ==
    /\ pcMain = "gather"
    /\ pcProd = "done"
    /\ session' = "closed"
    /\ pcMain' = "put_data"
    /\ UNCHANGED << crawlVars, queue, producer_done >>
    /\ UNCHANGED << prodVars, workerVars, sinkVars, histVars >>
    /\ UNCHANGED asideVars

(* run whose gather returns as soon as one task has returned *)
RunReturnFirstCompleted ==
    /\ pcMain = "gather"
    /\ pcProd = "done" \/ \E w \in Workers : pc[w] = "done"
    /\ session' = "closed"
    /\ pcMain' = "put_data"
    /\ UNCHANGED << crawlVars, queue, producer_done >>
    /\ UNCHANGED << prodVars, workerVars, sinkVars, histVars >>
    /\ UNCHANGED asideVars

(* run without the finally clause *)
RunReturnNoClose ==
    /\ pcMain = "gather"
    /\ pcProd = "done"
    /\ \A w \in Workers : pc[w] = "done"
    /\ pcMain' = "put_data"
    /\ UNCHANGED << crawlVars, session, queue, producer_done >>
    /\ UNCHANGED << prodVars, workerVars, sinkVars, histVars >>
    /\ UNCHANGED asideVars

(* run: gather returns when every task has returned; finally close_session *)
RunReturn ==
    /\ pcMain = "gather"
    /\ pcProd = "done"
    /\ \A w \in Workers : pc[w] = "done"
    /\ session' = "closed"
    /\ pcMain' = "put_data"
    /\ UNCHANGED << crawlVars, queue, producer_done >>
    /\ UNCHANGED << prodVars, workerVars, sinkVars, histVars >>
    /\ UNCHANGED asideVars

-----------------------------------------------------------------------------
(* produce_links that asks once more for a page it failed to fetch *)
ProducerFetchRetry ==
    /\ pcProd = "fetch"
    /\ \E r \in PageResults :
        /\ html' = r
        /\ fetched' = Append(fetched, page_number)
        /\ IF r = NoValue
           THEN /\ pcProd' = IF \E k \in DOMAIN fetched : fetched[k] = page_number
                             THEN "finally"
                             ELSE "fetch"
                /\ UNCHANGED << links, found_invalid_date, served, listing >>
           ELSE LET parsed == parse_links(r[1]) IN
                /\ served' = served + Len(r[1])
                /\ listing' = listing \o r[1]
                /\ IF parsed.raised
                   THEN /\ pcProd' = "finally"
                        /\ UNCHANGED << links, found_invalid_date >>
                   ELSE /\ links' = parsed.links
                        /\ found_invalid_date' = parsed.found_invalid_date
                        /\ pcProd' = IF parsed.links = << >>
                                        /\ ~parsed.found_invalid_date
                                     THEN "finally"
                                     ELSE "put"
    /\ UNCHANGED << crawlVars, pcMain, session, queue, producer_done, page_number >>
    /\ UNCHANGED << workerVars, sinkVars, histVars >>
    /\ UNCHANGED asideVars

(* produce_links: fetch_page returns; the page is parsed.  An exception    *)
(* out of parse_links goes to except Exception and then to finally.        *)
ProducerFetch ==
    /\ pcProd = "fetch"
    /\ \E r \in PageResults :
        /\ html' = r
        /\ fetched' = Append(fetched, page_number)
        /\ IF r = NoValue
           THEN /\ pcProd' = "finally"
                /\ UNCHANGED << links, found_invalid_date, served, listing >>
           ELSE LET parsed == parse_links(r[1]) IN
                /\ served' = served + Len(r[1])
                /\ listing' = listing \o r[1]
                /\ IF parsed.raised
                   THEN /\ pcProd' = "finally"
                        /\ UNCHANGED << links, found_invalid_date >>
                   ELSE /\ links' = parsed.links
                        /\ found_invalid_date' = parsed.found_invalid_date
                        /\ pcProd' = IF parsed.links = << >>
                                        /\ ~parsed.found_invalid_date
                                     THEN "finally"
                                     ELSE "put"
    /\ UNCHANGED << crawlVars, pcMain, session, queue, producer_done, page_number >>
    /\ UNCHANGED << workerVars, sinkVars, histVars >>
    /\ UNCHANGED asideVars

(* produce_links: the for loop puts the next link of the page *)
ProducerPut ==
    /\ pcProd = "put"
    /\ links # << >>
    /\ queue' = Append(queue, Len(enqueued) + 1)
    /\ enqueued' = Append(enqueued, Head(links))
    /\ dequeues' = Append(dequeues, 0)
    /\ outcome' = Append(outcome, "none")
    /\ links' = Tail(links)
    /\ UNCHANGED << crawlVars, pcMain, session, producer_done, pcProd, page_number,
                    html, found_invalid_date, fetched, served, listing >>
    /\ UNCHANGED << workerVars, sinkVars >>
    /\ UNCHANGED asideVars

(* produce_links that goes on with the page after the next *)
ProducerAdvanceSkip ==
    /\ pcProd = "put"
    /\ links = << >>
    /\ IF found_invalid_date
       THEN pcProd' = "finally" /\ UNCHANGED page_number
       ELSE pcProd' = "sleep" /\ page_number' = page_number + 2
    /\ html' = NoValue
    /\ UNCHANGED << crawlVars, pcMain, session, queue, producer_done, links,
                    found_invalid_date, fetched, served, listing >>
    /\ UNCHANGED << workerVars, sinkVars, histVars >>
    /\ UNCHANGED asideVars

(* produce_links: after the for loop, break on the flag or go to sleep *)
ProducerAdvance ==
    /\ pcProd = "put"
    /\ links = << >>
    /\ IF found_invalid_date
       THEN pcProd' = "finally" /\ UNCHANGED page_number
       ELSE pcProd' = "sleep" /\ page_number' = page_number + 1
    /\ html' = NoValue
    /\ UNCHANGED << crawlVars, pcMain, session, queue, producer_done, links,
                    found_invalid_date, fetched, served, listing >>
    /\ UNCHANGED << workerVars, sinkVars, histVars >>
    /\ UNCHANGED asideVars

(* produce_links: asyncio.sleep(REQUEST_DELAY) returns *)
ProducerSleep ==
    /\ pcProd = "sleep"
    /\ pcProd' = "fetch"
    /\ UNCHANGED << crawlVars, pcMain, session, queue, producer_done, page_number,
                    html, links, found_invalid_date, fetched, served, listing >>
    /\ UNCHANGED << workerVars, sinkVars, histVars >>
    /\ UNCHANGED asideVars

(* produce_links that sets the event after the loop and not in a finally    *)
(* clause: an exception out of the loop skips it                            *)
ProducerSetAfterLoop ==
    /\ pcProd = "finally"
    /\ producer_done' = ~(html # NoValue /\ parse_links(html[1]).raised)
    /\ pcProd' = "done"
    /\ UNCHANGED << crawlVars, pcMain, session, queue, page_number, html, links,
                    found_invalid_date, fetched, served, listing >>
    /\ UNCHANGED << workerVars, sinkVars, histVars >>
    /\ UNCHANGED asideVars

(* produce_links: finally: producer_done.set() *)
ProducerFinally ==
    /\ pcProd = "finally"
    /\ producer_done' = TRUE
    /\ pcProd' = "done"
    /\ UNCHANGED << crawlVars, pcMain, session, queue, page_number, html, links,
                    found_invalid_date, fetched, served, listing >>
    /\ UNCHANGED << workerVars, sinkVars, histVars >>
    /\ UNCHANGED asideVars

-----------------------------------------------------------------------------
(* consume_links: the while condition is evaluated *)
ConsumerLoop(w) ==
    /\ pc[w] = "loop"
    /\ pc' = [pc EXCEPT ![w] = IF ConsumerStop THEN "done" ELSE "get"]
    /\ UNCHANGED << crawlVars, pcMain, session, queue, producer_done, link >>
    /\ UNCHANGED << prodVars, sinkVars, histVars >>
    /\ UNCHANGED asideVars

(* queue.get() that hands out the head entry and leaves it in the queue *)
ConsumerGetKeep(w) ==
    /\ pc[w] = "get"
    /\ queue # << >>
    /\ link' = [link EXCEPT ![w] = Some(Head(queue))]
    /\ dequeues' = [dequeues EXCEPT ![Head(queue)] = @ + 1]
    /\ pc' = [pc EXCEPT ![w] = "download"]
    /\ UNCHANGED << crawlVars, pcMain, session, queue, producer_done, enqueued,
                    outcome >>
    /\ UNCHANGED << prodVars, sinkVars >>
    /\ UNCHANGED asideVars

(* consume_links: queue.get() returns an entry within the timeout *)
ConsumerGet(w) ==
    /\ pc[w] = "get"
    /\ queue # << >>
    /\ link' = [link EXCEPT ![w] = Some(Head(queue))]
    /\ queue' = Tail(queue)
    /\ dequeues' = [dequeues EXCEPT ![Head(queue)] = @ + 1]
    /\ pc' = [pc EXCEPT ![w] = "download"]
    /\ UNCHANGED << crawlVars, pcMain, session, producer_done, enqueued, outcome >>
    /\ UNCHANGED << prodVars, sinkVars >>
    /\ UNCHANGED asideVars

(* queue.get() awaited without a timeout: an empty queue never wakes it *)
ConsumerWaitForever(w) ==
    /\ pc[w] = "get"
    /\ queue = << >>
    /\ FALSE
    /\ UNCHANGED vars

(* consume_links: wait_for raises TimeoutError; continue *)
ConsumerTimeout(w) ==
    /\ pc[w] = "get"
    /\ queue = << >>
    /\ pc' = [pc EXCEPT ![w] = "loop"]
    /\ UNCHANGED << crawlVars, pcMain, session, queue, producer_done, link >>
    /\ UNCHANGED << prodVars, sinkVars, histVars >>
    /\ UNCHANGED asideVars

(* consume_links without the except Exception clause: a raise ends the task *)
ConsumerDownloadAbort(w) ==
    /\ pc[w] = "download"
    /\ \E resp \in Responses :
        /\ outcome' = [outcome EXCEPT ![link[w][1]] =
                        IF download_file(resp).raised THEN "raised" ELSE "decoded"]
        /\ pc' = [pc EXCEPT ![w] =
                        IF download_file(resp).raised THEN "done" ELSE "loop"]
    /\ link' = [link EXCEPT ![w] = NoValue]
    /\ UNCHANGED << crawlVars, pcMain, session, queue, producer_done, enqueued,
                    dequeues >>
    /\ UNCHANGED << prodVars, sinkVars >>
    /\ UNCHANGED asideVars

(* consume_links that moves the high-water mark to the date of the file it  *)
(* has decoded                                                              *)
ConsumerDownloadMovesMark(w) ==
    /\ pc[w] = "download"
    /\ \E resp \in Responses :
        /\ outcome' = [outcome EXCEPT ![link[w][1]] =
                        IF download_file(resp).raised THEN "raised" ELSE "decoded"]
        /\ max_date' = IF download_file(resp).raised THEN max_date
                       ELSE Some(enqueued[link[w][1]])
        /\ max_date_type' = IF download_file(resp).raised THEN max_date_type
                            ELSE "datetime"
    /\ link' = [link EXCEPT ![w] = NoValue]
    /\ pc' = [pc EXCEPT ![w] = "loop"]
    /\ UNCHANGED << today, cutoff_date, pcMain, session, queue, producer_done,
                    enqueued, dequeues >>
    /\ UNCHANGED << prodVars, sinkVars >>
    /\ UNCHANGED asideVars

(* consume_links: download_file returns or raises; parse_file; task_done *)
ConsumerDownload(w) ==
    /\ pc[w] = "download"
    /\ \E resp \in Responses :
        outcome' = [outcome EXCEPT ![link[w][1]] =
                        IF download_file(resp).raised THEN "raised" ELSE "decoded"]
    /\ link' = [link EXCEPT ![w] = NoValue]
    /\ pc' = [pc EXCEPT ![w] = "loop"]
    /\ UNCHANGED << crawlVars, pcMain, session, queue, producer_done, enqueued,
                    dequeues >>
    /\ UNCHANGED << prodVars, sinkVars >>
    /\ UNCHANGED asideVars

-----------------------------------------------------------------------------
(* the sink started as one more task next to the producer and the consumers *)
SinkStartConcurrent ==
    /\ pcMain \in {"gather", "put_data"}
    /\ pcSink = "idle"
    /\ pcSink' = "loop"
    /\ UNCHANGED << crawlVars, pcMain, session, queue, producer_done,
                    queue_data_for_db, producer_db >>
    /\ UNCHANGED << prodVars, workerVars, histVars >>
    /\ UNCHANGED asideVars

(* main: await db.put_data_into_bd(parser.queue_data_for_db, parser) *)
SinkStart ==
    /\ pcMain = "put_data"
    /\ pcSink = "idle"
    /\ pcSink' = "loop"
    /\ UNCHANGED << crawlVars, pcMain, session, queue, producer_done,
                    queue_data_for_db, producer_db >>
    /\ UNCHANGED << prodVars, workerVars, histVars >>
    /\ UNCHANGED asideVars

(* put_data_into_bd: the while condition is evaluated *)
SinkLoop ==
    /\ pcSink = "loop"
    /\ pcSink' = IF CompletionPredicate THEN "returned" ELSE "get"
    /\ UNCHANGED << crawlVars, pcMain, session, queue, producer_done,
                    queue_data_for_db, producer_db >>
    /\ UNCHANGED << prodVars, workerVars, histVars >>
    /\ UNCHANGED asideVars

(* main: await db.close_db() *)
MainCloseDb ==
    /\ pcMain = "put_data"
    /\ pcSink = "returned"
    /\ pcMain' = "end"
    /\ UNCHANGED << crawlVars, session, queue, producer_done >>
    /\ UNCHANGED << prodVars, workerVars, sinkVars, histVars >>
    /\ UNCHANGED asideVars

-----------------------------------------------------------------------------
Producer ==
    \/ ProducerFetch
    \/ ProducerPut
    \/ ProducerAdvance
    \/ ProducerSleep
    \/ ProducerFinally

Consumer(w) ==
    \/ ConsumerLoop(w)
    \/ ConsumerGet(w)
    \/ ConsumerTimeout(w)
    \/ ConsumerDownload(w)

Next ==
    \/ MainGetMaxDate
    \/ RunStart
    \/ RunReturn
    \/ Producer
    \/ \E w \in Workers : Consumer(w)
    \/ SinkStart
    \/ SinkLoop
    \/ MainCloseDb

Spec == Init /\ [][Next]_vars

(* The event loop runs every task that is ready, and every timeout fires.   *)
LiveSpec ==
    /\ Spec
    /\ WF_vars(MainGetMaxDate \/ RunStart \/ RunReturn)
    /\ WF_vars(Producer)
    /\ \A w \in Workers : WF_vars(Consumer(w))
    /\ WF_vars(SinkStart \/ SinkLoop \/ MainCloseDb)

(* The parser constructed with any arguments, max_date a datetime as its    *)
(* signature declares or the datetime.date main() passes, with the producer *)
(* task alone scheduled: the consumers write no variable the producer       *)
(* reads.                                                                   *)
DiscoveryInit ==
    /\ today \in Dates
    /\ cutoff_date \in Dates
    /\ max_date \in OptionalDates
    /\ max_date_type \in (IF max_date = NoValue THEN {"none"} ELSE {"datetime", "date"})
    /\ pcMain = "run"
    /\ session = "none"
    /\ queue = << >>
    /\ producer_done = FALSE
    /\ queue_data_for_db = << >>
    /\ producer_db = 0
    /\ pcProd = "idle"
    /\ page_number = 1
    /\ html = NoValue
    /\ links = << >>
    /\ found_invalid_date = FALSE
    /\ pc = [w \in Workers |-> "idle"]
    /\ link = [w \in Workers |-> NoValue]
    /\ pcSink = "idle"
    /\ enqueued = << >>
    /\ dequeues = << >>
    /\ outcome = << >>
    /\ fetched = << >>
    /\ served = 0
    /\ listing = << >>
    /\ href = NoHref
    /\ full_url = NoValue
    /\ response = NoResponse
    /\ file_content = NoValue
    /\ requests = 0
    /\ FileParserIdle
    /\ StoreIdle
    /\ CacheIdle
    /\ DatabaseIdle
    /\ ApiIdle

DiscoveryNext ==
    \/ RunStart
    \/ Producer

DiscoverySpec == DiscoveryInit /\ [][DiscoveryNext]_vars

(* parse_links and download_file called on their own, as test_parcers.py    *)
(* calls them: one anchor with an accepted date, one link with one          *)
(* response.                                                                *)
UnitInit ==
    /\ today \in {MaxDay}
    /\ cutoff_date = DEFAULT_CUTOFF_DATE
    /\ max_date = NoValue
    /\ max_date_type = "none"
    /\ pcMain = "get_max"
    /\ session = "none"
    /\ queue = << >>
    /\ producer_done = FALSE
    /\ queue_data_for_db = << >>
    /\ producer_db = 0
    /\ pcProd = "idle"
    /\ page_number = 1
    /\ html = NoValue
    /\ links = << >>
    /\ found_invalid_date = FALSE
    /\ pc = [w \in Workers |-> "idle"]
    /\ link = [w \in Workers |-> NoValue]
    /\ pcSink = "idle"
    /\ enqueued = << >>
    /\ dequeues = << >>
    /\ outcome = << >>
    /\ fetched = << >>
    /\ served = 0
    /\ listing = << >>
    /\ href \in Hrefs
    /\ full_url = NoValue
    /\ response \in Responses
    /\ file_content = NoValue
    /\ requests = 0
    /\ FileParserIdle
    /\ StoreIdle
    /\ CacheIdle
    /\ DatabaseIdle
    /\ ApiIdle

(* parse_links on the anchor: result.append((full_url, date_file)) *)
UnitParseLinks ==
    /\ full_url = NoValue
    /\ full_url' = Some(clean_and_join(href))
    /\ UNCHANGED << href, response, file_content, requests >>
    /\ UNCHANGED << crawlVars, pcMain, session, queue, producer_done >>
    /\ UNCHANGED << prodVars, workerVars, sinkVars, histVars >>
    /\ UNCHANGED << fileVars, storeVars, cacheVars, dbVars, apiVars >>

(* download_file that asks a second time when the first request failed *)
UnitDownloadFileRetry ==
    /\ file_content = NoValue
    /\ requests' = IF response.status = 200 THEN requests + 1 ELSE requests + 2
    /\ file_content' = Some(download_file(response))
    /\ UNCHANGED << href, full_url, response >>
    /\ UNCHANGED << crawlVars, pcMain, session, queue, producer_done >>
    /\ UNCHANGED << prodVars, workerVars, sinkVars, histVars >>
    /\ UNCHANGED << fileVars, storeVars, cacheVars, dbVars, apiVars >>

(* download_file on the link: one session.get, then what it returns or      *)
(* raises, kept as the outcome.                                             *)
UnitDownloadFile ==
    /\ file_content = NoValue
    /\ requests' = requests + 1
    /\ file_content' = Some(download_file(response))
    /\ UNCHANGED << href, full_url, response >>
    /\ UNCHANGED << crawlVars, pcMain, session, queue, producer_done >>
    /\ UNCHANGED << prodVars, workerVars, sinkVars, histVars >>
    /\ UNCHANGED << fileVars, storeVars, cacheVars, dbVars, apiVars >>

UnitNext ==
    \/ UnitParseLinks
    \/ UnitDownloadFile

UnitSpec == UnitInit /\ [][UnitNext]_vars

-----------------------------------------------------------------------------
(* The pool at work: run() from the moment the producer has parsed a first  *)
(* page that holds one link more than there are consumers                   *)

PoolLinks == NUM_CONSUMERS + 1

(* The first page: PoolLinks anchors of today, and the same page with an    *)
(* anchor before the cutoff at its end.                                     *)
PoolPages ==
    LET page == [i \in 1..PoolLinks |-> [tok |-> "date", date |-> MaxDay]]
    IN  {page, Append(page, [tok |-> "date", date |-> 0])}

PoolInit ==
    /\ today = MaxDay
    /\ cutoff_date = DEFAULT_CUTOFF_DATE
    /\ max_date = NoValue
    /\ max_date_type = "none"
    /\ pcMain = "gather"
    /\ session = "open"
    /\ queue = << >>
    /\ producer_done = FALSE
    /\ queue_data_for_db = << >>
    /\ producer_db = 0
    /\ pcProd = "put"
    /\ page_number = 1
    /\ html \in {Some(p) : p \in PoolPages}
    /\ links = parse_links(html[1]).links
    /\ found_invalid_date = parse_links(html[1]).found_invalid_date
    /\ pc = [w \in Workers |-> "loop"]
    /\ link = [w \in Workers |-> NoValue]
    /\ pcSink = "idle"
    /\ enqueued = << >>
    /\ dequeues = << >>
    /\ outcome = << >>
    /\ fetched = << 1 >>
    /\ served = Len(html[1])
    /\ listing = html[1]
    /\ href = NoHref
    /\ full_url = NoValue
    /\ response = NoResponse
    /\ file_content = NoValue
    /\ requests = 0
    /\ FileParserIdle
    /\ StoreIdle
    /\ CacheIdle
    /\ DatabaseIdle
    /\ ApiIdle

PoolNext ==
    \/ Producer
    \/ \E w \in Workers : Consumer(w)
    \/ RunReturn

PoolSpec == PoolInit /\ [][PoolNext]_vars

-----------------------------------------------------------------------------
(* Database.put_data_into_bd on a records queue, after the parser has run *)

IngestInit ==
    /\ today \in {MaxDay}
    /\ cutoff_date = DEFAULT_CUTOFF_DATE
    /\ max_date = NoValue
    /\ max_date_type = "none"
    /\ pcMain = "put_data"
    /\ session = "closed"
    /\ queue = << >>
    /\ producer_done = TRUE
    /\ queue_data_for_db \in SeqsUpTo(RecordBatches, MaxBatches)
    /\ producer_db \in {0, 1}
    /\ pcProd = "done"
    /\ page_number = 1
    /\ html = NoValue
    /\ links = << >>
    /\ found_invalid_date = FALSE
    /\ pc = [w \in Workers |-> "done"]
    /\ link = [w \in Workers |-> NoValue]
    /\ pcSink = "idle"
    /\ enqueued = << >>
    /\ dequeues = << >>
    /\ outcome = << >>
    /\ fetched = << >>
    /\ served = 0
    /\ listing = << >>
    /\ href = NoHref
    /\ full_url = NoValue
    /\ response = NoResponse
    /\ file_content = NoValue
    /\ requests = 0
    /\ FileParserIdle
    /\ StoreIdle
    /\ CacheIdle
    /\ DatabaseIdle
    /\ ApiIdle

(* put_data_into_bd: wait_for(queue.get()) gives a batch; a batch that is   *)
(* not empty is inserted and committed, or the session cannot reach the     *)
(* database; either exception is logged.                                    *)
SinkGet ==
    /\ pcSink = "get"
    /\ queue_data_for_db # << >>
    /\ queue_data_for_db' = Tail(queue_data_for_db)
    /\ \E reached \in BOOLEAN :
        LET data_bulletin == Head(queue_data_for_db)
            executed == data_bulletin # << >> /\ reached
        IN  /\ bulletin' = IF executed THEN insert(bulletin, data_bulletin).rows
                           ELSE bulletin
            /\ ingested' = Append(ingested, [batch |-> data_bulletin,
                                             executed |-> executed])
    /\ pcSink' = "loop"
    /\ UNCHANGED << producer_db >>
    /\ UNCHANGED << pipelineVars, unitVars, fileVars, cacheVars, dbVars, apiVars >>

(* put_data_into_bd: nothing arrives within the timeout, and the            *)
(* TimeoutError of wait_for leaves the method.                              *)
SinkTimeout ==
    /\ pcSink = "get"
    /\ queue_data_for_db = << >>
    /\ pcSink' = "raised"
    /\ UNCHANGED << queue_data_for_db, producer_db >>
    /\ UNCHANGED << pipelineVars, asideVars >>

(* The counter of active producers when run() has returned: every worker   *)
(* has ended, and the count of the workers that are running is zero.        *)
AfterRun == producer_db = 0

IngestNext ==
    \/ SinkStart
    \/ SinkLoop
    \/ SinkGet
    \/ SinkTimeout

IngestSpec == IngestInit /\ [][IngestNext]_vars

-----------------------------------------------------------------------------
(* The cache client called at one moment of the clock *)

(* A client that was never connected, or one whose store is reachable or    *)
(* not, at any moment of a month, the last day included.                    *)
CacheInit ==
    /\ today \in {MaxDay}
    /\ cutoff_date = DEFAULT_CUTOFF_DATE
    /\ max_date = NoValue
    /\ max_date_type = "none"
    /\ pcMain = "get_max"
    /\ session = "none"
    /\ queue = << >>
    /\ producer_done = FALSE
    /\ queue_data_for_db = << >>
    /\ producer_db = 0
    /\ pcProd = "idle"
    /\ page_number = 1
    /\ html = NoValue
    /\ links = << >>
    /\ found_invalid_date = FALSE
    /\ pc = [w \in Workers |-> "idle"]
    /\ link = [w \in Workers |-> NoValue]
    /\ pcSink = "idle"
    /\ enqueued = << >>
    /\ dequeues = << >>
    /\ outcome = << >>
    /\ fetched = << >>
    /\ served = 0
    /\ listing = << >>
    /\ href = NoHref
    /\ full_url = NoValue
    /\ response = NoResponse
    /\ file_content = NoValue
    /\ requests = 0
    /\ FileParserIdle
    /\ StoreIdle
    /\ CACHE_RESET_TIME \in ResetTimes
    /\ redis \in {"none", "up", "down"}
    /\ connected = NoValue
    /\ is_running = FALSE
    /\ now \in 0..(MonthDays * TicksPerDay - 1)
    /\ pcSched = "idle"
    /\ wake = 0
    /\ entries = << >>
    /\ reply = NoValue
    /\ flushes = {}
    /\ DatabaseIdle
    /\ ApiIdle

(* What the caller of one call gets *)
Reply(call, key, ttl, r, ran) ==
    Some([call |-> call, key |-> key, ttl |-> ttl, raised |-> r.raised,
          returned |-> r.returned, ran |-> ran])

CallGet ==
    /\ \E key \in Keys :
        /\ reply' = Reply("get", key, NoValue, get(key), FALSE)
        /\ entries' = get(key).entries
    /\ UNCHANGED << CACHE_RESET_TIME, redis, connected, is_running, now, pcSched,
                    wake, flushes >>
    /\ UNCHANGED << pipelineVars, sinkVars, unitVars, fileVars, storeVars, dbVars,
                    apiVars >>

CallSet ==
    /\ \E key \in Keys, value \in Values, ttl \in {NoValue, Some(0), Some(300)} :
        /\ reply' = Reply("set", key, ttl, set(key, value, ttl), FALSE)
        /\ entries' = set(key, value, ttl).entries
    /\ UNCHANGED << CACHE_RESET_TIME, redis, connected, is_running, now, pcSched,
                    wake, flushes >>
    /\ UNCHANGED << pipelineVars, sinkVars, unitVars, fileVars, storeVars, dbVars,
                    apiVars >>

CallDelete ==
    /\ \E key \in Keys :
        /\ reply' = Reply("delete", key, NoValue, delete(key), FALSE)
        /\ entries' = delete(key).entries
    /\ UNCHANGED << CACHE_RESET_TIME, redis, connected, is_running, now, pcSched,
                    wake, flushes >>
    /\ UNCHANGED << pipelineVars, sinkVars, unitVars, fileVars, storeVars, dbVars,
                    apiVars >>

CallDeletePattern ==
    /\ \E pattern \in Patterns :
        /\ reply' = Reply("delete_pattern", pattern, NoValue, delete_pattern(pattern), FALSE)
        /\ entries' = delete_pattern(pattern).entries
    /\ UNCHANGED << CACHE_RESET_TIME, redis, connected, is_running, now, pcSched,
                    wake, flushes >>
    /\ UNCHANGED << pipelineVars, sinkVars, unitVars, fileVars, storeVars, dbVars,
                    apiVars >>

CallClearAllCache ==
    /\ reply' = Reply("clear_all_cache", "*", NoValue, clear_all_cache, FALSE)
    /\ entries' = clear_all_cache.entries
    /\ UNCHANGED << CACHE_RESET_TIME, redis, connected, is_running, now, pcSched,
                    wake, flushes >>
    /\ UNCHANGED << pipelineVars, sinkVars, unitVars, fileVars, storeVars, dbVars,
                    apiVars >>

HandlerCall(result) ==
    CASE result = "None" -> "cached handler returning None"
      [] result = "rows" -> "cached handler returning rows"
      [] OTHER -> "cached handler returning rows with dates"

(* A handler decorated with cached is called; it would return `result`.     *)
CallCached ==
    /\ \E key \in Keys, result \in Values :
        /\ reply' = Reply(HandlerCall(result),
                          key, NoValue, wrapper(key, result),
                          wrapper(key, result).ran)
        /\ entries' = wrapper(key, result).entries
    /\ UNCHANGED << CACHE_RESET_TIME, redis, connected, is_running, now, pcSched,
                    wake, flushes >>
    /\ UNCHANGED << pipelineVars, sinkVars, unitVars, fileVars, storeVars, dbVars,
                    apiVars >>

CacheNext ==
    \/ CallGet
    \/ CallSet
    \/ CallDelete
    \/ CallDeletePattern
    \/ CallClearAllCache
    \/ CallCached

CacheSpec == CacheInit /\ [][CacheNext]_vars

-----------------------------------------------------------------------------
(* The scheduler of the cache client, with the clock running *)

SchedulerInit ==
    /\ today \in {MaxDay}
    /\ cutoff_date = DEFAULT_CUTOFF_DATE
    /\ max_date = NoValue
    /\ max_date_type = "none"
    /\ pcMain = "get_max"
    /\ session = "none"
    /\ queue = << >>
    /\ producer_done = FALSE
    /\ queue_data_for_db = << >>
    /\ producer_db = 0
    /\ pcProd = "idle"
    /\ page_number = 1
    /\ html = NoValue
    /\ links = << >>
    /\ found_invalid_date = FALSE
    /\ pc = [w \in Workers |-> "idle"]
    /\ link = [w \in Workers |-> NoValue]
    /\ pcSink = "idle"
    /\ enqueued = << >>
    /\ dequeues = << >>
    /\ outcome = << >>
    /\ fetched = << >>
    /\ served = 0
    /\ listing = << >>
    /\ href = NoHref
    /\ full_url = NoValue
    /\ response = NoResponse
    /\ file_content = NoValue
    /\ requests = 0
    /\ FileParserIdle
    /\ StoreIdle
    /\ CACHE_RESET_TIME \in ResetTimes
    /\ redis = "none"
    /\ connected = NoValue
    /\ is_running = FALSE
    /\ now \in 0..(TicksPerDay - 1)
    /\ pcSched = "idle"
    /\ wake = 0
    /\ entries = << >>
    /\ reply = NoValue
    /\ flushes = {}
    /\ DatabaseIdle
    /\ ApiIdle

(* connect: the client is made and the scheduler task created *)
Connect ==
    /\ pcSched = "idle"
    /\ redis' \in {"up", "down"}
    /\ is_running' = TRUE
    /\ connected' = Some(now)
    /\ pcSched' = "loop"
    /\ UNCHANGED << CACHE_RESET_TIME, now, wake, entries, reply, flushes >>
    /\ UNCHANGED << pipelineVars, sinkVars, unitVars, fileVars, storeVars, dbVars,
                    apiVars >>

(* _scheduler, lines 37-50 and 59-61: the next reset is computed and the    *)
(* task sleeps until then, or the computation raises and the task sleeps    *)
(* RetrySeconds.                                                            *)
SchedulerSleep ==
    /\ pcSched = "loop"
    /\ IF ~is_running
       THEN pcSched' = "done" /\ wake' = wake
       ELSE IF next_reset(now).raised # ""
       THEN pcSched' = "retry" /\ wake' = now + RetrySeconds * TicksPerSecond
       ELSE pcSched' = "sleep" /\ wake' = next_reset(now).at
    /\ UNCHANGED << CACHE_RESET_TIME, redis, connected, is_running, now, entries,
                    reply, flushes >>
    /\ UNCHANGED << pipelineVars, sinkVars, unitVars, fileVars, storeVars, dbVars,
                    apiVars >>

(* _scheduler, lines 52-55: the sleep is over and the cache is cleared *)
SchedulerFlush ==
    /\ pcSched = "sleep"
    /\ now = wake
    /\ IF is_running
       THEN /\ flushes' = flushes \cup {now}
            /\ entries' = clear_all_cache.entries
       ELSE UNCHANGED << flushes, entries >>
    /\ pcSched' = "loop"
    /\ UNCHANGED << CACHE_RESET_TIME, redis, connected, is_running, now, wake, reply >>
    /\ UNCHANGED << pipelineVars, sinkVars, unitVars, fileVars, storeVars, dbVars,
                    apiVars >>

(* _scheduler, line 61: the wait after an error is over *)
SchedulerRetry ==
    /\ pcSched = "retry"
    /\ now = wake
    /\ pcSched' = "loop"
    /\ UNCHANGED << CACHE_RESET_TIME, redis, connected, is_running, now, wake,
                    entries, reply, flushes >>
    /\ UNCHANGED << pipelineVars, sinkVars, unitVars, fileVars, storeVars, dbVars,
                    apiVars >>

(* A handler writes to the cache while the scheduler sleeps.                *)
SchedulerSet ==
    /\ pcSched \in {"sleep", "retry"}
    /\ entries = << >>
    /\ \E key \in Keys :
        /\ reply' = Reply("set", key, NoValue, set(key, "rows", NoValue), FALSE)
        /\ entries' = set(key, "rows", NoValue).entries
    /\ UNCHANGED << CACHE_RESET_TIME, redis, connected, is_running, now, pcSched,
                    wake, flushes >>
    /\ UNCHANGED << pipelineVars, sinkVars, unitVars, fileVars, storeVars, dbVars,
                    apiVars >>

(* The clock advances while the scheduler sleeps; the task is woken when    *)
(* its time has come.                                                       *)
Tick ==
    /\ pcSched \in {"sleep", "retry"}
    /\ now < wake
    /\ now + 1 \in Instants
    /\ now' = now + 1
    /\ UNCHANGED << CACHE_RESET_TIME, redis, connected, is_running, pcSched, wake,
                    entries, reply, flushes >>
    /\ UNCHANGED << pipelineVars, sinkVars, unitVars, fileVars, storeVars, dbVars,
                    apiVars >>

(* disconnect: the scheduler task is cancelled in its sleep *)
Disconnect ==
    /\ is_running
    /\ pcSched \in {"sleep", "retry"}
    /\ is_running' = FALSE
    /\ pcSched' = "done"
    /\ UNCHANGED << CACHE_RESET_TIME, redis, connected, now, wake, entries, reply,
                    flushes >>
    /\ UNCHANGED << pipelineVars, sinkVars, unitVars, fileVars, storeVars, dbVars,
                    apiVars >>

SchedulerNext ==
    \/ Connect
    \/ SchedulerSleep
    \/ SchedulerFlush
    \/ SchedulerRetry
    \/ SchedulerSet
    \/ Tick
    \/ Disconnect

SchedulerSpec == SchedulerInit /\ [][SchedulerNext]_vars

-----------------------------------------------------------------------------
(* Requests to the cached handlers of the API *)

MaxRequests == 3

RequestInit ==
    /\ today \in {MaxDay}
    /\ cutoff_date = DEFAULT_CUTOFF_DATE
    /\ max_date = NoValue
    /\ max_date_type = "none"
    /\ pcMain = "get_max"
    /\ session = "none"
    /\ queue = << >>
    /\ producer_done = FALSE
    /\ queue_data_for_db = << >>
    /\ producer_db = 0
    /\ pcProd = "idle"
    /\ page_number = 1
    /\ html = NoValue
    /\ links = << >>
    /\ found_invalid_date = FALSE
    /\ pc = [w \in Workers |-> "idle"]
    /\ link = [w \in Workers |-> NoValue]
    /\ pcSink = "idle"
    /\ enqueued = << >>
    /\ dequeues = << >>
    /\ outcome = << >>
    /\ fetched = << >>
    /\ served = 0
    /\ listing = << >>
    /\ href = NoHref
    /\ full_url = NoValue
    /\ response = NoResponse
    /\ file_content = NoValue
    /\ requests = 0
    /\ FileParserIdle
    /\ StoreIdle
    /\ CACHE_RESET_TIME \in ResetTimes
    /\ redis = "up"
    /\ connected = NoValue
    /\ is_running = FALSE
    /\ now \in {0, TicksPerDay - 1}
    /\ pcSched = "idle"
    /\ wake = 0
    /\ entries = << >>
    /\ reply = NoValue
    /\ flushes = {}
    /\ DatabaseIdle
    /\ ApiIdle

(* A request to a cached handler: the framework calls the wrapper with the  *)
(* query arguments and the session of the request as keyword arguments, in  *)
(* either order; the handler would return rows.                             *)
Request ==
    /\ Cardinality(api_calls) < MaxRequests
    /\ \E handler \in Handlers, oil_id \in QueryValues, session_ \in SessionObjects,
          swapped \in BOOLEAN :
        LET kwargs == IF swapped
                      THEN << << "session", session_ >>, << "oil_id", oil_id >> >>
                      ELSE << << "oil_id", oil_id >>, << "session", session_ >> >>
            cache_key_value_ == cache_key_value(handler, << >>, kwargs)
            call == wrapper(cache_key_value_, "rows")
        IN  /\ reply' = Reply(HandlerCall("rows"), cache_key_value_, NoValue, call,
                              call.ran)
            /\ entries' = call.entries
            /\ api_calls' = api_calls \cup
                    {[handler |-> handler.name, oil_id |-> oil_id,
                      key |-> cache_key_value_]}
    /\ UNCHANGED << CACHE_RESET_TIME, redis, connected, is_running, now, pcSched,
                    wake, flushes >>
    /\ UNCHANGED << pipelineVars, sinkVars, unitVars, fileVars, storeVars, dbVars >>

(* A request to the handler decorated with manual_cache_clear *)
RequestClearCache ==
    /\ reply' = Reply("clear_all_cache", << >>, NoValue, clear_all_cache, FALSE)
    /\ entries' = clear_all_cache.entries
    /\ UNCHANGED << CACHE_RESET_TIME, redis, connected, is_running, now, pcSched,
                    wake, flushes >>
    /\ UNCHANGED << pipelineVars, sinkVars, unitVars, fileVars, storeVars, dbVars,
                    apiVars >>

RequestNext ==
    \/ Request
    \/ RequestClearCache

RequestSpec == RequestInit /\ [][RequestNext]_vars

-----------------------------------------------------------------------------
(* The Database object: init_db, get_session and close_db in any order *)

DatabaseInit ==
    /\ today \in {MaxDay}
    /\ cutoff_date = DEFAULT_CUTOFF_DATE
    /\ max_date = NoValue
    /\ max_date_type = "none"
    /\ pcMain = "get_max"
    /\ session = "none"
    /\ queue = << >>
    /\ producer_done = FALSE
    /\ queue_data_for_db = << >>
    /\ producer_db = 0
    /\ pcProd = "idle"
    /\ page_number = 1
    /\ html = NoValue
    /\ links = << >>
    /\ found_invalid_date = FALSE
    /\ pc = [w \in Workers |-> "idle"]
    /\ link = [w \in Workers |-> NoValue]
    /\ pcSink = "idle"
    /\ enqueued = << >>
    /\ dequeues = << >>
    /\ outcome = << >>
    /\ fetched = << >>
    /\ served = 0
    /\ listing = << >>
    /\ href = NoHref
    /\ full_url = NoValue
    /\ response = NoResponse
    /\ file_content = NoValue
    /\ requests = 0
    /\ FileParserIdle
    /\ StoreIdle
    /\ CacheIdle
    /\ engine = NoValue
    /\ session_factory = NoValue
    /\ pcInitDb = "idle"
    /\ engines_created = 0
    /\ pg_database \in BOOLEAN
    /\ tables \in BOOLEAN
    /\ tables => pg_database
    /\ ApiIdle

(* await db.init_db() *)
InitDb ==
    /\ engines_created < MaxEngines
    /\ \E connect \in ConnectOutcomes, create_async_engine \in CallOutcomes,
          tables_outcome \in CallOutcomes :
        LET call == init_db(connect, create_async_engine, tables_outcome)
        IN  /\ engine' = call.engine
            /\ session_factory' = call.session_factory
            /\ engines_created' = call.engines_created
            /\ pg_database' = call.pg_database
            /\ tables' = call.tables
            /\ pcInitDb' = IF call.raised = "" THEN "returned" ELSE "raised"
    /\ UNCHANGED << pipelineVars, sinkVars, unitVars, fileVars, storeVars, cacheVars,
                    apiVars >>

(* get_session: the factory, and the engine when there is none, are made    *)
(* on first use.                                                            *)
GetSession ==
    /\ session_factory = NoValue
    /\ engines_created < MaxEngines
    /\ \E create_async_engine \in CallOutcomes :
        IF engine = NoValue /\ create_async_engine # "ok"
        THEN UNCHANGED << engine, session_factory, engines_created >>
        ELSE /\ engine' = IF engine = NoValue THEN Some(engines_created + 1) ELSE engine
             /\ engines_created' =
                    IF engine = NoValue THEN engines_created + 1 ELSE engines_created
             /\ session_factory' = engine'
    /\ UNCHANGED << pcInitDb, pg_database, tables >>
    /\ UNCHANGED << pipelineVars, sinkVars, unitVars, fileVars, storeVars, cacheVars,
                    apiVars >>

(* close_db: the engine is disposed of and both attributes are reset.       *)
CloseDb ==
    /\ engine # NoValue
    /\ engine' = NoValue
    /\ session_factory' = NoValue
    /\ UNCHANGED << pcInitDb, engines_created, pg_database, tables >>
    /\ UNCHANGED << pipelineVars, sinkVars, unitVars, fileVars, storeVars, cacheVars,
                    apiVars >>

DatabaseNext ==
    \/ InitDb
    \/ GetSession
    \/ CloseDb

DatabaseSpec == DatabaseInit /\ [][DatabaseNext]_vars

-----------------------------------------------------------------------------
(* FileParser.parse_file called on its own, on one file *)

ParseInit ==
    /\ today \in {MaxDay}
    /\ cutoff_date = DEFAULT_CUTOFF_DATE
    /\ max_date = NoValue
    /\ max_date_type = "none"
    /\ pcMain = "get_max"
    /\ session = "none"
    /\ queue = << >>
    /\ producer_done = FALSE
    /\ queue_data_for_db = << >>
    /\ producer_db = 0
    /\ pcProd = "idle"
    /\ page_number = 1
    /\ html = NoValue
    /\ links = << >>
    /\ found_invalid_date = FALSE
    /\ pc = [w \in Workers |-> "idle"]
    /\ link = [w \in Workers |-> NoValue]
    /\ pcSink = "idle"
    /\ enqueued = << >>
    /\ dequeues = << >>
    /\ outcome = << >>
    /\ fetched = << >>
    /\ served = 0
    /\ listing = << >>
    /\ href = NoHref
    /\ full_url = NoValue
    /\ response = NoResponse
    /\ file_content = NoValue
    /\ requests = 0
    /\ content \in FileContents
    /\ file_date \in {MaxDay}
    /\ batch = NoValue
    /\ open_workbook_calls = 0
    /\ StoreIdle
    /\ CacheIdle
    /\ DatabaseIdle
    /\ ApiIdle

(* parse_data = await parser.parse_file(file_content, date_file) *)
ParseFile ==
    /\ batch = NoValue
    /\ batch' = Some(parse_file(content, file_date).result)
    /\ open_workbook_calls' =
            open_workbook_calls + parse_file(content, file_date).open_workbook_calls
    /\ UNCHANGED << content, file_date >>
    /\ UNCHANGED << pipelineVars, sinkVars, unitVars, storeVars, cacheVars, dbVars,
                    apiVars >>

ParseNext == ParseFile

ParseSpec == ParseInit /\ [][ParseNext]_vars

-----------------------------------------------------------------------------
(* Helpers of the properties *)

RunReturned == pcMain \in {"put_data", "end"}

Ids == DOMAIN enqueued

(* The first position of the page whose anchor holds a calendar date that   *)
(* Out rejects, or 0.                                                       *)
FirstOut(page, Out(_)) ==
    LET hits == {i \in DOMAIN page : page[i].tok = "date" /\ Out(page[i].date)}
    IN  IF hits = {} THEN 0 ELSE CHOOSE i \in hits : \A j \in hits : i <= j

(* The dates of the calendar-date anchors among the first n of the page.    *)
DatesBefore(page, n) ==
    LET head == SubSeq(page, 1, n)
        kept == SelectSeq(head, LAMBDA a : a.tok = "date")
    IN  [k \in DOMAIN kept |-> kept[k].date]

(* Out of range as the code decides it: in the future, before the cutoff    *)
(* when there is no high-water mark, before the high-water mark otherwise.  *)
OutOfRange(d) ==
    \/ d > today
    \/ max_date = NoValue /\ d < cutoff_date
    \/ max_date # NoValue /\ d < max_date[1]

(* Out of range with "not newer than the high-water mark" rejected.         *)
OutOfRangeNotNewer(d) ==
    \/ d > today
    \/ max_date = NoValue /\ d < cutoff_date
    \/ max_date # NoValue /\ d <= max_date[1]

(* The page just fetched stops at its first Out date: the flag is set and   *)
(* the links returned are those before it; and once the flag is set no      *)
(* further page is requested.                                               *)
HaltsAtFirst(Out(_)) ==
    /\ (pcProd = "fetch" /\ html' # NoValue /\ FirstOut(html'[1], Out) # 0)
          => /\ found_invalid_date'
             /\ links' = DatesBefore(html'[1], FirstOut(html'[1], Out) - 1)
    /\ (html # NoValue /\ FirstOut(html[1], Out) # 0)
          => /\ fetched' = fetched
             /\ pcProd' \in {"put", "finally", "done"}
             /\ Len(enqueued') + Len(links') = Len(enqueued) + Len(links)

-----------------------------------------------------------------------------
C3_ConsumedExactlyOnce ==
    /\ \A i \in Ids : dequeues[i] <= 1
    /\ \A v, w \in Workers : (v # w /\ link[v] # NoValue) => link[v] # link[w]
    /\ \A i \in Ids :
          dequeues[i] = IF \E k \in DOMAIN queue : queue[k] = i THEN 0 ELSE 1
    /\ RunReturned =>
          /\ queue = << >>
          /\ \A i \in Ids : dequeues[i] = 1 /\ outcome[i] # "none"

C3_Witness ==
    /\ RunReturned
    /\ Len(enqueued) = MaxAnchors

(* C4: while the sink has not started, the batch of every entry a consumer  *)
(* has decoded is in the records queue.                                     *)
C4_DecodedBatchQueued ==
    \A i \in Ids :
        (outcome[i] = "decoded" /\ pcSink = "idle") =>
            \E k \in DOMAIN queue_data_for_db : queue_data_for_db[k].link = i

(* C5: a download that raises leaves its consumer in the loop and touches   *)
(* no other consumer, and every entry put is processed by the time run()    *)
(* returns.                                                                 *)
C5_BadLinkContained ==
    /\ [][\A w \in Workers :
            (pc[w] = "download" /\ pc'[w] # "download"
                /\ outcome'[link[w][1]] = "raised")
            => /\ pc'[w] = "loop"
               /\ \A v \in Workers \ {w} : pc'[v] = pc[v] /\ link'[v] = link[v]
               /\ queue' = queue]_vars
    /\ [](RunReturned => \A i \in Ids : outcome[i] # "none")

C5_Witness ==
    /\ RunReturned
    /\ \E i, j \in Ids : i < j /\ outcome[i] = "raised" /\ outcome[j] = "decoded"

(* C6: once discovery-done is set and the link queue is empty every         *)
(* consumer eventually leaves its loop, and run() eventually returns.       *)
C6_ConsumersTerminate ==
    /\ (producer_done /\ queue = << >>) ~> (\A w \in Workers : pc[w] = "done")
    /\ <>RunReturned

C6_Witness ==
    /\ producer_done
    /\ queue = << >>
    /\ \E w \in Workers : pc[w] = "get"

(* C7: a consumer leaves its loop only from the check of the condition and  *)
(* only with discovery-done set and the link queue empty; a check that      *)
(* finds the condition false leads to another wait.                         *)
C7_ExitOnlyWhenStopHolds ==
    /\ [][\A w \in Workers :
            /\ (pc[w] # "done" /\ pc'[w] = "done")
                  => (pc[w] = "loop" /\ producer_done /\ queue = << >>)
            /\ (pc[w] = "loop" /\ pc'[w] # "loop" /\ ~(producer_done /\ queue = << >>))
                  => pc'[w] = "get"
            /\ (pc[w] = "get" /\ queue = << >> /\ pc'[w] # "get")
                  => pc'[w] = "loop"]_vars
    /\ [](\A w \in Workers : pc[w] = "done" => (producer_done /\ queue = << >>))

C7_Witness ==
    /\ \E w \in Workers : pc[w] = "done"
    /\ \E w \in Workers : pc[w] = "get"
    /\ Len(enqueued) > 0

C9_AcceptsIffFromCutoff ==
    /\ max_date = NoValue =>
          \A d \in Dates : is_valid_date(d) <=> (cutoff_date <= d /\ d <= today)
    /\ \A d \in Dates : d > today => ~is_valid_date(d)

C9_Witness ==
    /\ pcMain # "get_max"
    /\ max_date = NoValue
    /\ \E i \in Ids : enqueued[i] = cutoff_date
    /\ html # NoValue
    /\ \E k \in DOMAIN html[1] : html[1][k].tok = "date" /\ html[1][k].date > today

AcceptedBeforeBoundary(anchors) ==
    LET boundary == FirstOut(anchors, OutOfRange)
    IN  DatesBefore(anchors, IF boundary = 0 THEN Len(anchors) ELSE boundary - 1)

(* C11: when the producer has finished, the entries put on the link queue   *)
(* are exactly the in-range links of the pages served that come before the  *)
(* first out-of-range date, in listing order, each once.                    *)
C11_EnqueuedAreAcceptedBeforeBoundary ==
    pcProd = "done" => enqueued = AcceptedBeforeBoundary(listing)

(* The producer has left its loop, and why.                                 *)
ProducerLeftLoop == pcProd \in {"finally", "done"}

FetchFailed == ProducerLeftLoop /\ html = NoValue /\ ~found_invalid_date

ParseRaised == ProducerLeftLoop /\ html # NoValue /\ parse_links(html[1]).raised

EmptyPage ==
    /\ ProducerLeftLoop
    /\ html # NoValue
    /\ ~parse_links(html[1]).raised
    /\ parse_links(html[1]).links = << >>
    /\ ~parse_links(html[1]).found_invalid_date

BoundaryHit == ProducerLeftLoop /\ found_invalid_date

(* C12: however the producer leaves its loop (boundary, empty page, failed  *)
(* fetch, exception), discovery-done is set when it has finished; it is     *)
(* set only after the last put, and once set it stays set.                  *)
C12_DoneSetOnEveryExit ==
    /\ [](ProducerLeftLoop => (BoundaryHit \/ EmptyPage \/ FetchFailed \/ ParseRaised))
    /\ [](pcProd = "done" => producer_done)
    /\ [](producer_done => pcProd = "done")
    /\ [][producer_done => (producer_done' /\ enqueued' = enqueued)]_vars

C12_Witness ==
    /\ pcProd = "done"
    /\ producer_done
    /\ ParseRaised
    /\ pcMain = "end"

(* C13: a page fetch that fails ends the loop at once and leaves the link   *)
(* queue as it is; afterwards no page is requested, no page number is ever  *)
(* requested twice, and the entries put before are all got by the time      *)
(* run() returns.                                                           *)
C13_FetchFailureTerminal ==
    /\ [][(fetched' # fetched /\ html' = NoValue)
            => /\ pcProd' = "finally"
               /\ queue' = queue
               /\ enqueued' = enqueued
               /\ FetchFailed']_vars
    /\ [][FetchFailed => (FetchFailed' /\ fetched' = fetched /\ enqueued' = enqueued)]_vars
    /\ [](\A i, j \in DOMAIN fetched : i # j => fetched[i] # fetched[j])
    /\ []((FetchFailed /\ RunReturned) => \A i \in Ids : dequeues[i] = 1)

C13_Witness ==
    /\ FetchFailed
    /\ pcProd = "done"
    /\ Len(fetched) > 1
    /\ queue # << >>
    /\ \E w \in Workers : pc[w] = "get"

(* C14: a page with no link and no boundary ends the loop; a page with a    *)
(* link and no boundary is followed by the page with the next number; the   *)
(* pages requested are 1, 2, ..., k.                                        *)
C14_PagesInSequence ==
    /\ [](fetched = [i \in 1..Len(fetched) |-> i])
    /\ [](pcProd \in {"fetch", "sleep"} => page_number = Len(fetched) + 1)
    /\ [][(pcProd = "fetch" /\ EmptyPage') => (pcProd' = "finally" /\ enqueued' = enqueued)]_vars
    /\ [][EmptyPage => (EmptyPage' /\ fetched' = fetched /\ enqueued' = enqueued)]_vars
    /\ [][(pcProd = "put" /\ pcProd' # "put")
            => IF found_invalid_date
               THEN pcProd' = "finally" /\ page_number' = page_number
               ELSE pcProd' = "sleep" /\ page_number' = page_number + 1]_vars

C14_Witness ==
    /\ EmptyPage
    /\ pcProd = "done"
    /\ fetched = << 1, 2 >>
    /\ Len(enqueued) = 1

(* The page without its anchors whose token is not a calendar date.         *)
WithoutMalformed(page) == SelectSeq(page, LAMBDA a : a.tok = "date")

(* C15: an anchor whose token is not a calendar date changes nothing in     *)
(* what parse_links gives: the links, the flag and the exception are those  *)
(* of the page without it, so the valid anchors after it are still          *)
(* evaluated and returned.                                                  *)
C15_MalformedTokenSkipped ==
    [][(pcProd = "fetch" /\ html' # NoValue)
        => LET page == html'[1]
               rest == parse_links(WithoutMalformed(page))
           IN  /\ (pcProd' = "put") <=> (~rest.raised /\ (rest.links # << >> \/ rest.found_invalid_date))
               /\ pcProd' = "put"
                    => /\ links' = rest.links
                       /\ found_invalid_date' = rest.found_invalid_date
               /\ (max_date_type # "date" /\ pcProd' = "put")
                    => links' = AcceptedBeforeBoundary(page)]_vars

C15_Witness ==
    /\ pcProd = "put"
    /\ html # NoValue
    /\ Len(html[1]) > 1
    /\ html[1][1].tok = "malformed"
    /\ html[1][2].tok = "date"
    /\ links = << html[1][2].date >>
    /\ ~found_invalid_date

(* The origin of the site: the scheme and the authority of BASE_URL.        *)
SiteOrigin == SubSeq(BASE_URL, 1, 2)

HasQuestionMark(url) == \E i \in DOMAIN url : url[i] = "?"

IsAbsolute(url) == Len(url) > 1 /\ url[1] \in Schemes /\ url[2] \in Netlocs

(* The href is written from the root of the site: no authority, or the      *)
(* site's own, and a path that starts with a separator.                     *)
OnSiteFromRoot(h) ==
    /\ urlparse(h).scheme \in {<< >>, SubSeq(BASE_URL, 1, 1)}
    /\ urlparse(h).netloc \in {<< >>, SubSeq(BASE_URL, 2, 2)}
    /\ urlparse(h).path # << >>
    /\ Head(urlparse(h).path) = "/"

(* C16, as claimed: the URL returned for a matched href holds no "?" and    *)
(* is the origin of the site followed by the path of the href.              *)
C16_StrippedAndOnSiteOrigin ==
    full_url # NoValue =>
        /\ ~HasQuestionMark(full_url[1])
        /\ full_url[1] = SiteOrigin \o urlparse(href).path

(* C16, amended: the URL returned holds no "?" and no "#" and is absolute;  *)
(* it is the origin of the site followed by the path of the href when the   *)
(* href is written from the root of the site; an href with another scheme   *)
(* or host keeps them, and a path without a leading separator is resolved   *)
(* against the directory of BASE_URL.                                       *)
C16_StrippedAndAbsolute ==
    full_url # NoValue =>
        LET u == urlparse(href)
            url == full_url[1]
        IN  /\ ~HasQuestionMark(url)
            /\ \A i \in DOMAIN url : url[i] # "#"
            /\ IsAbsolute(url)
            /\ OnSiteFromRoot(href) => url = SiteOrigin \o u.path
            /\ u.netloc # << >>
                 => url = (IF u.scheme = << >> THEN SubSeq(BASE_URL, 1, 1) ELSE u.scheme)
                            \o u.netloc \o u.path
            /\ (u.netloc = << >> /\ Head(u.path) # "/") => url = BASE_URL \o u.path

C16_Witness ==
    /\ full_url # NoValue
    /\ HasQuestionMark(href)
    /\ Head(href) = "archive"
    /\ full_url[1] = BASE_URL \o << "archive" >> \o ReportPath

(* C17: download_file makes one request and then returns the body of a      *)
(* successful response, returns None for HTTP 404, re-raises the error of   *)
(* any other HTTP error status with that status, and returns None for any   *)
(* other exception.                                                         *)
C17_DownloadOutcomes ==
    /\ file_content = NoValue => requests = 0
    /\ file_content # NoValue =>
        LET o == file_content[1] IN
        /\ requests = 1
        /\ response.status = 200 => (~o.raised /\ o.content = Some(response.body))
        /\ response.status = 404 => (~o.raised /\ o.content = NoValue)
        /\ response.status \in {401, 403, 500}
             => (o.raised /\ o.status = response.status /\ o.content = NoValue)
        /\ response.status = 0 => (~o.raised /\ o.content = NoValue)

C17_Witness ==
    /\ file_content # NoValue
    /\ response.status = 500
    /\ file_content[1].raised
    /\ requests = 1

(* A request that failed: an HTTP error status or an exception.             *)
FailedResponses == {r \in Responses : r.status # 200}

(* C18, as claimed: what the caller sees for HTTP 404 differs from what it  *)
(* sees for every other failed request.                                     *)
C18_NotFoundUnlikeAnyFailure ==
    (file_content # NoValue /\ response.status = 404) =>
        \A r \in FailedResponses : r.status # 404 => download_file(r) # file_content[1]

(* C18, amended: what the caller sees for HTTP 404 (None, nothing raised)   *)
(* differs from what it sees for every other HTTP error status (the error   *)
(* re-raised), and is the same as what it sees for an exception that is     *)
(* not a response error.                                                    *)
C18_NotFoundUnlikeOtherStatus ==
    (file_content # NoValue /\ response.status = 404) =>
        /\ file_content[1] = [raised |-> FALSE, content |-> NoValue, status |-> 0]
        /\ \A r \in FailedResponses :
            /\ (r.status # 0 /\ r.status # 404) => download_file(r) # file_content[1]
            /\ r.status = 0 => download_file(r) = file_content[1]

C18_Witness ==
    /\ file_content # NoValue
    /\ response.status = 404
    /\ ~file_content[1].raised

(* C19: when run() has returned the session is closed; the step in which    *)
(* gather ends is the step that closes it, and the session stays closed.    *)
C19_SessionClosedOnReturn ==
    /\ [](RunReturned => session = "closed")
    /\ [][(pcMain = "gather" /\ pcMain' # "gather") => session' = "closed"]_vars
    /\ [][session = "closed" => session' = "closed"]_vars
    /\ [](pcMain = "gather" => session = "open")

C19_Witness ==
    /\ RunReturned
    /\ session = "closed"
    /\ \E i \in Ids : outcome[i] = "raised"
    /\ FetchFailed

(* C20: the session is not closed and run() has not returned while the      *)
(* producer or a consumer is still running.                                 *)
C20_DoneOnlyAfterAllTasks ==
    /\ (session = "closed" \/ RunReturned) =>
          (pcProd = "done" /\ \A w \in Workers : pc[w] = "done")
    /\ (pcProd \in {"fetch", "put", "sleep", "finally"}
          \/ \E w \in Workers : pc[w] \in {"loop", "get", "download"})
          => (session = "open" /\ pcMain = "gather")

C20_Witness ==
    /\ pcMain = "gather"
    /\ session = "open"
    /\ pcProd = "done"
    /\ \E w \in Workers : pc[w] = "done"
    /\ \E w \in Workers : pc[w] = "download"

-----------------------------------------------------------------------------
(* FileParser.parse_file *)

(* The sheet parse_file was given, when the bytes were read as a workbook.  *)
SheetGiven ==
    IF content # NoValue /\ content[1].open_workbook = "ok"
    THEN content[1].data
    ELSE << >>

(* The locals parse_file leaves its loop with on the sheet given.           *)
AfterRows ==
    scan_rows(SheetGiven, 1, BeforeRows, {"ValueError", "IndexError"}, file_date)

(* The rows of the sheet whose cell in the count column is a count > 0.     *)
PositiveCountRows ==
    {i \in 1..Len(SheetGiven) :
        /\ DOMAIN AfterRows.column_indices # {}
        /\ int_float_or_zero(SheetGiven[i],
                             AfterRows.column_indices[FIELD_NAMES.count]).value > 0}

LongId == << "A", "5", "9", "2", "B", "O", "0", "2", "A" >>

(* C21: every record of the list parse_file returns has an integer count    *)
(* greater than 0, whatever the rows of the sheet hold, and the list has    *)
(* no more records than the sheet has rows whose count cell is a count      *)
(* greater than 0: an empty, non-numeric, zero or negative count cell       *)
(* gives no record.                                                         *)
C21_NoRecordWithoutCount ==
    batch # NoValue =>
        /\ \A i \in 1..Len(batch[1]) : batch[1][i].count \in Nat \ {0}
        /\ Len(batch[1]) <= Cardinality(PositiveCountRows)

(* A sheet with a row of count 0.0 before a row of count 1.0 was parsed and *)
(* gave the one record.                                                     *)
C21_Witness ==
    /\ batch # NoValue
    /\ SheetGiven = << SectionRow, HeaderRow, SubHeaderRow,
                       DataRow(LongId, Number(0)), DataRow(LongId, Number(2)) >>
    /\ Len(batch[1]) = 1
    /\ batch[1][1].count = 1

(* The first row after the first section-opening row lacks some of the      *)
(* expected column names.                                                   *)
HeaderRejected ==
    \E i \in 1..(Len(SheetGiven) - 1) :
        /\ second_cell_has(SheetGiven[i], {METRIC_TON_UNIT})
        /\ \A j \in 1..(i - 1) : ~second_cell_has(SheetGiven[j], {METRIC_TON_UNIT})
        /\ DOMAIN process_headers(SheetGiven[i + 1]) = {}

(* C22: when the first row after the section-opening row does not hold all  *)
(* the expected column names, parse_file returns the empty list, whatever   *)
(* rows follow.                                                             *)
C22_HeaderIsHardPrecondition ==
    (batch # NoValue /\ HeaderRejected) => batch[1] = << >>

RowExceptions == {"ValueError", "IndexError", "OverflowError"}

Derivable(record) == add_new_key_in_dict_for_db(<< record >>).raised = ""

(* What parse_file returns when a row whose processing fails is the only    *)
(* thing lost: the rows scanned with every exception of a row caught at     *)
(* the row, and the records without derived fields left out one by one.     *)
RecordsOfValidRows ==
    add_new_key_in_dict_for_db(
        SelectSeq(scan_rows(SheetGiven, 1, BeforeRows, RowExceptions, file_date).result,
                  Derivable)).result

(* C23: a failure on one data row never aborts the batch: the list          *)
(* returned holds the record of every row whose processing does not fail,   *)
(* whatever the other rows are.                                             *)
C23_RowFailureContained ==
    batch # NoValue => batch[1] = RecordsOfValidRows

IsHtml(bytes) == bytes.head # << >> /\ Head(bytes.head) \in {"<!DOCTYPE", "<html"}

(* C24: parse_file returns a list for every content and never raises; the   *)
(* list is empty for absent content, for content that starts with           *)
(* "<!DOCTYPE" or "<html" and for content xlrd.open_workbook rejects, and   *)
(* for absent or HTML content open_workbook is not called.                  *)
C24_FailsClosed ==
    batch # NoValue =>
        /\ DOMAIN batch[1] = 1..Len(batch[1])
        /\ (content = NoValue \/ IsHtml(content[1]) \/ content[1].open_workbook # "ok")
                => batch[1] = << >>
        /\ (content = NoValue \/ IsHtml(content[1])) => open_workbook_calls = 0
        /\ open_workbook_calls <= 1

(* Content that starts with "<html" was parsed.                             *)
C24_Witness ==
    /\ batch = Some(<< >>)
    /\ content # NoValue
    /\ Head(content[1].head) = "<html"
    /\ open_workbook_calls = 0

(* C25: in every record returned, oil_id is the first 4 characters of       *)
(* exchange_product_id, delivery_basis_id its characters [4:7) and          *)
(* delivery_type_id the last character of delivery_basis_id, and the other  *)
(* fields are those of the record before the derivation.                    *)
C25_DerivedFromProductId ==
    batch # NoValue =>
        /\ batch[1] # << >> => Len(batch[1]) = Len(AfterRows.result)
        /\ \A i \in 1..Len(batch[1]) :
            LET record == batch[1][i]
                id == record.exchange_product_id
            IN  /\ record.oil_id = SubSeq(id, 1, 4)
                /\ record.delivery_basis_id = SubSeq(id, 5, IF Len(id) < 7 THEN Len(id) ELSE 7)
                /\ Len(record.delivery_basis_id) > 0
                /\ record.delivery_type_id =
                        << record.delivery_basis_id[Len(record.delivery_basis_id)] >>
                /\ [k \in DOMAIN FIELD_NAMES \cup {"date"} |-> record[k]]
                        = AfterRows.result[i]

(* The record of product "A592BO02A" was returned, with "A592", "BO0", "0". *)
C25_Witness ==
    /\ batch # NoValue
    /\ \E i \in 1..Len(batch[1]) :
        /\ batch[1][i].exchange_product_id = LongId
        /\ batch[1][i].oil_id = << "A", "5", "9", "2" >>
        /\ batch[1][i].delivery_basis_id = << "B", "O", "0" >>
        /\ batch[1][i].delivery_type_id = << "0" >>
        /\ batch[1][i].count = 2

(* The locals parse_file leaves its loop with on the first n rows.          *)
RowsScanned(n) ==
    scan_rows(SubSeq(SheetGiven, 1, n), 1, BeforeRows, {"ValueError", "IndexError"},
              file_date)

(* Row j of the sheet added a record to the list parse_file returned.       *)
YieldsRecord(j) ==
    /\ batch # NoValue
    /\ batch[1] # << >>
    /\ Len(RowsScanned(j).result) > Len(RowsScanned(j - 1).result)

(* The section of the metric ton is open after row n: a row with the unit   *)
(* marker opens it, and in it a row with the unit marker or the totals      *)
(* marker closes it.                                                        *)
RECURSIVE SectionOpenAfter(_)
SectionOpenAfter(n) ==
    IF n = 0 THEN FALSE
    ELSE IF SectionOpenAfter(n - 1)
    THEN ~second_cell_has(SheetGiven[n], {METRIC_TON_UNIT, ITOGO})
    ELSE second_cell_has(SheetGiven[n], {METRIC_TON_UNIT})

ClosingRow(i) ==
    /\ SectionOpenAfter(i - 1)
    /\ second_cell_has(SheetGiven[i], {METRIC_TON_UNIT, ITOGO})

(* C31: in the section, a row whose second cell holds the unit marker again *)
(* or the totals marker closes it: no row after such a row adds a record    *)
(* to the list returned unless a row with the unit marker lies between      *)
(* them, whatever the rows of the sheet are.                                *)
C31_ClosingRowCloses ==
    \A i \in 1..Len(SheetGiven) : \A j \in (i + 1)..Len(SheetGiven) :
        (/\ ClosingRow(i)
         /\ \A k \in (i + 1)..(j - 1) :
                ~second_cell_has(SheetGiven[k], {METRIC_TON_UNIT}))
            => ~YieldsRecord(j)

(* Row h is the header row parse_file accepted.                             *)
HeaderAccepted(h) ==
    /\ DOMAIN RowsScanned(h - 1).column_indices = {}
    /\ DOMAIN RowsScanned(h).column_indices # {}

(* Row j is a data row of the open section that gives a record: no marker   *)
(* in its second cell, which is a string longer than 3 characters, a count  *)
(* greater than 0, a product id the derived fields can be taken from, and   *)
(* nothing in the sheet raises.                                             *)
RecordRow(j) ==
    /\ RowsScanned(j - 1).in_metric_ton_section
    /\ DOMAIN RowsScanned(j - 1).column_indices # {}
    /\ ~second_cell_has(SheetGiven[j], {METRIC_TON_UNIT, ITOGO})
    /\ truth(SheetGiven[j][2])
    /\ SheetGiven[j][2].type = "str"
    /\ len(SheetGiven[j][2].text) > 3
    /\ valid_row_in_dict_for_db(SheetGiven[j], RowsScanned(j - 1).column_indices,
                                file_date).result # << >>
    /\ add_new_key_in_dict_for_db(
            valid_row_in_dict_for_db(SheetGiven[j], RowsScanned(j - 1).column_indices,
                                     file_date).result).raised = ""
    /\ AfterRows.raised = ""
    /\ add_new_key_in_dict_for_db(AfterRows.result).raised = ""

(* C32: the row right after the accepted header row adds no record to the   *)
(* list returned, whatever it holds, and it is the only row skipped for     *)
(* following the header: every later data row of the open section with a    *)
(* count greater than 0 adds its record.                                    *)
C32_OnlySubHeaderSkipped ==
    batch # NoValue =>
        \A h \in 1..Len(SheetGiven) :
            HeaderAccepted(h) =>
                /\ h < Len(SheetGiven) => ~YieldsRecord(h + 1)
                /\ \A j \in (h + 2)..Len(SheetGiven) : RecordRow(j) => YieldsRecord(j)

(* C33: every record of the list parse_file returns has volume >= 0 and     *)
(* total >= 0, besides count > 0, whatever the cells of the rows hold.      *)
C33_RecordWithinBounds ==
    batch # NoValue =>
        \A i \in 1..Len(batch[1]) :
            /\ batch[1][i].volume >= 0
            /\ batch[1][i].total >= 0
            /\ batch[1][i].count > 0

-----------------------------------------------------------------------------
(* The dates the crawl is bounded by *)

(* C37: max_date is read once, by main before run starts any task, None     *)
(* when the query fails or the table is empty; after that no step of the    *)
(* producer, the consumers or the sink changes cutoff_date or max_date,     *)
(* and with max_date None every link put on the queue is dated between      *)
(* cutoff_date and today.                                                   *)
C37_CrawlStateReadOnly ==
    /\ [][(max_date' # max_date \/ max_date_type' # max_date_type)
            => (/\ pcMain = "get_max"
                /\ pcMain' = "run"
                /\ pcProd = "idle"
                /\ fetched = << >>
                /\ \A w \in Workers : pc[w] = "idle")]_vars
    /\ [][pcMain # "get_max" => pcMain' # "get_max"]_vars
    /\ [][cutoff_date' = cutoff_date]_vars
    /\ [](cutoff_date = DEFAULT_CUTOFF_DATE)
    /\ [](max_date = NoValue =>
            \A id \in DOMAIN enqueued :
                cutoff_date <= enqueued[id] /\ enqueued[id] <= today)

(* The query gave None, the crawl is over and has decoded a file dated      *)
(* after the cutoff: max_date is None as before.                            *)
C37_Witness ==
    /\ pcMain = "put_data"
    /\ max_date = NoValue
    /\ cutoff_date = DEFAULT_CUTOFF_DATE
    /\ \E id \in DOMAIN enqueued :
        /\ outcome[id] = "decoded"
        /\ enqueued[id] > cutoff_date

-----------------------------------------------------------------------------
(* The pool of consumers *)

(* The entries taken off the queue whose download has not ended.            *)
InFlight == {id \in DOMAIN enqueued : dequeues[id] > 0 /\ outcome[id] = "none"}

(* C34: at most NUM_CONSUMERS downloads are in flight, each of them the     *)
(* one link its worker holds; a worker takes a link off the queue only      *)
(* when it holds none; and the producer has at most one page requested and  *)
(* not yet answered.                                                        *)
C34_ConcurrencyBounded ==
    /\ [](Cardinality(InFlight) <= NUM_CONSUMERS)
    /\ [](InFlight = {link[w][1] : w \in {v \in DOMAIN link : link[v] # NoValue}})
    /\ [](\A w \in DOMAIN pc : pc[w] = "download" <=> link[w] # NoValue)
    /\ [][\A w \in DOMAIN link :
            (link'[w] # link[w] /\ link'[w] # NoValue) => link[w] = NoValue]_vars
    /\ [](page_number - Len(fetched) \in {0, 1})
    /\ [](pcProd = "fetch" => page_number - Len(fetched) = 1)

(* Every consumer is downloading and one more link waits in the queue.      *)
C34_Witness ==
    /\ Cardinality(InFlight) = NUM_CONSUMERS
    /\ \A w \in Workers : pc[w] = "download"
    /\ queue # << >>

-----------------------------------------------------------------------------
(* Database.put_data_into_bd *)

(* The batch of the step was executed by the database before.               *)
IngestedAgain ==
    /\ ingested' # ingested
    /\ ingested'[Len(ingested')].executed
    /\ \E k \in 1..Len(ingested) :
        /\ ingested[k].executed
        /\ ingested[k].batch = ingested'[Len(ingested')].batch

(* C26: table bulletin never holds two rows with the same                   *)
(* (exchange_product_id, date), after any sequence of batches, and          *)
(* inserting a batch the database has executed before leaves the rows of    *)
(* the table as they are.                                                   *)
C26_IngestIdempotent ==
    /\ [](\A i, j \in 1..Len(bulletin) :
            (/\ bulletin[i].exchange_product_id = bulletin[j].exchange_product_id
             /\ bulletin[i].date = bulletin[j].date) => i = j)
    /\ [][IngestedAgain => bulletin' = bulletin]_vars

(* The same batch of two records was inserted twice and is stored once.     *)
C26_Witness ==
    /\ Len(ingested) = 2
    /\ ingested[1] = ingested[2]
    /\ ingested[1].executed
    /\ Len(ingested[1].batch) = 2
    /\ bulletin = ingested[1].batch

(* The batches the sink has taken off the records queue, in order.          *)
Dequeued == [k \in 1..Len(ingested) |-> ingested[k].batch]

(* The step takes an empty batch off the records queue.                     *)
EmptyBatchTaken ==
    /\ ingested' # ingested
    /\ ingested'[Len(ingested')].batch = << >>

BatchTaken == ingested' # ingested

(* The table rejects the batch: with the rows it holds, the batch would     *)
(* give a pair (exchange_product_id, date) twice, or a volume is negative.  *)
Rejected(data_bulletin) ==
    \/ ~uix_exchange_product_id_data(bulletin \o data_bulletin)
    \/ ~volume_check(data_bulletin)

-----------------------------------------------------------------------------
(* RedisClient *)

(* C27: no call on the cache raises, and when the client is not connected   *)
(* or the store fails every call, get returns None, set, delete,            *)
(* delete_pattern and clear_all_cache return False, and a cached handler    *)
(* runs and its own result is what the caller gets.                         *)
C27_DegradesToMiss ==
    reply # NoValue =>
        /\ reply[1].raised = ""
        /\ redis # "up" =>
            /\ reply[1].call = "get" => reply[1].returned = "None"
            /\ reply[1].call \in {"set", "delete", "delete_pattern", "clear_all_cache"}
                    => reply[1].returned = "False"
            /\ reply[1].call = "cached handler returning rows"
                    => reply[1].ran /\ reply[1].returned = "rows"
            /\ reply[1].call = "cached handler returning None"
                    => reply[1].ran /\ reply[1].returned = "None"
            /\ entries = << >>

(* A cached handler was called with the store down, ran and returned rows.  *)
C27_Witness ==
    /\ redis = "down"
    /\ reply # NoValue
    /\ reply[1].call = "cached handler returning rows"
    /\ reply[1].ran
    /\ reply[1].returned = "rows"
    /\ reply[1].raised = ""

(* What the handler of the call would return.                               *)
HandlerResult(call) == CHOOSE v \in Values : HandlerCall(v) = call

(* RedisClient.set can write at this moment: the store answers and the TTL  *)
(* until the reset is computed and positive.                                *)
Writable ==
    /\ redis = "up"
    /\ get_ttl_until_reset(now).raised = ""
    /\ get_ttl_until_reset(now).ttl > 0

Requested == CHOOSE c \in api_calls' : c.key = reply'[1].key

(* C36: the key is a function of the handler and of the query arguments     *)
(* only, whatever the order of the keyword arguments and the session of     *)
(* the request: two requests to one handler with equal query arguments      *)
(* have the same key, and the later one is answered from the cache while    *)
(* the entry the earlier one wrote is there.                                *)
C36_KeyOfQueryOnly ==
    /\ [](\A c, d \in api_calls :
            (c.handler = d.handler /\ c.oil_id = d.oil_id) => c.key = d.key)
    /\ [][Request =>
            \A c \in api_calls :
                (/\ c.handler = Requested.handler
                 /\ c.oil_id = Requested.oil_id
                 /\ c.key \in DOMAIN entries)
                    => ~reply'[1].ran]_vars

(* The moments at which the clock shows the reset time.                     *)
ResetMoments ==
    {combine(d, CACHE_RESET_TIME) : d \in 0..(MaxMonths * MonthDays)}

(* Whole seconds from now to the next reset moment after now.               *)
SecondsToNextReset ==
    LET r == CHOOSE m \in ResetMoments :
                /\ m > now
                /\ \A n \in ResetMoments : n > now => m <= n
    IN  (r - now) \div TicksPerSecond

(* C28: a set without a TTL on a reachable store stores the entry, with a   *)
(* TTL of the whole seconds from now to the next reset moment, greater      *)
(* than 0 and at most a day, at every moment of every day of the month.     *)
C28_TtlUntilNextReset ==
    (reply # NoValue /\ reply[1].call = "set" /\ reply[1].ttl = NoValue /\ redis = "up")
        => /\ reply[1].returned = "True"
           /\ reply[1].key \in DOMAIN entries
           /\ entries[reply[1].key].ttl = SecondsToNextReset
           /\ 0 < SecondsToNextReset
           /\ SecondsToNextReset <= SecondsPerDay

(* C29: while the client is running, every reset moment that has passed     *)
(* since connect has its flush by the scheduler, and the scheduler flushes  *)
(* at no other moment.                                                      *)
C29_FlushAtEveryReset ==
    (connected # NoValue /\ is_running) =>
        /\ \A r \in ResetMoments : (connected[1] < r /\ r < now) => r \in flushes
        /\ flushes \subseteq ResetMoments

-----------------------------------------------------------------------------
(* Database.init_db *)

(* The step is a call of init_db that raised, or one that returned.         *)
InitDbRaised == InitDb /\ pcInitDb' = "raised"

InitDbReturned == InitDb /\ pcInitDb' = "returned"

(* C30: a call of init_db out of which create_db or the creation of the     *)
(* engine raises leaves engine and session_factory as they were, None on a  *)
(* Database that was never initialised; a call in which at most the         *)
(* creation of the tables fails returns and has set both, the factory on    *)
(* the engine it made.                                                      *)
C30_InitDbConsistent ==
    /\ [][InitDbRaised =>
            (/\ engine' = engine
             /\ session_factory' = session_factory
             /\ engines_created' = engines_created)]_vars
    /\ [][InitDbReturned =>
            (/\ engines_created' = engines_created + 1
             /\ engine' = Some(engines_created')
             /\ session_factory' = engine')]_vars
    /\ []((pcInitDb = "raised" /\ engines_created = 0)
            => (engine = NoValue /\ session_factory = NoValue))

(* init_db returned with engine and factory on a server that has no         *)
(* database, so that the creation of the tables failed                      *)
C30_Witness ==
    /\ pcInitDb = "returned"
    /\ ~pg_database
    /\ ~tables
    /\ engine # NoValue
    /\ session_factory = engine

(* init_db raised on a new Database, which holds neither engine nor factory *)
C30_WitnessRaised ==
    /\ pcInitDb = "raised"
    /\ engines_created = 0
    /\ engine = NoValue
    /\ session_factory = NoValue

====
